---------------------------- MODULE Spec2Model ----------------------------
(***************************************************************************)
(* A model of the BullMQ adapter of queue-vision (BullMQAdapter.ts): the   *)
(* adapter's two connection handles, the Redis store it reads, its read    *)
(* operations (getJob, getJobs) step by step at their await points, and    *)
(* its lifecycle operations (connect, disconnect, subscribe).              *)
(*                                                                         *)
(* Strings that the code takes apart or puts together (queue names, job    *)
(* ids, keys) are sequences of atoms: an atom is ":" or a word without     *)
(* ":"; two words are never adjacent, so a string has one representation.  *)
(***************************************************************************)
EXTENDS Integers, Sequences, FiniteSets, TLC

\* ------------------------------------------------------------------ bounds

\* Writes the producing application may make to the store in one behaviour.
MaxBrokerOps == 1
\* Adapter lifecycle calls (connect, disconnect, subscribe) in one behaviour.
MaxTasks == 3
\* Keyspace notifications the broker sends in one behaviour.
MaxNotify == 2
\* Members of the completed set, and of the failed set, of the large store.
BulkSize == 101

\* --------------------------------------------------------- program constants

\* getJobs' default limit.
DefaultLimit == 100
\* getJobs' default offset.
DefaultOffset == 0
\* The last position of getMetrics' samples (ZREVRANGE key 0 99).
SampleStop == 99
\* getMetrics' window, 60 * 60 * 1000 ms.
OneHourMs == 3600000

\* ------------------------------------------------------------------ inputs

\* The null of this.client and this.subscriber; connections count from 1.
NULL == 0

J1 == <<"j1">>
J2 == <<"j2">>
J3 == <<"j3">>
JobIds == {J1, J2, J3}

Emails == <<"emails">>
QueueNames == {Emails}

Scores == {1000, 2000}

\* What Date.now() may return in getMetrics: the instant one hour after the
\* lesser score, the millisecond after it, and an instant with no score
\* inside the last hour.
Nows == {OneHourMs + 1000, OneHourMs + 1001, OneHourMs + 3000}

\* The statuses a caller may pass: the five of the JobStatus enum, "paused"
\* (a status of the HTTP layer's schema) and a string that is no status.
StatusArgs == {"waiting", "active", "completed", "failed", "delayed",
               "paused", "invalid-status"}
OffsetArgs == {0, 1}
LimitArgs == {0, 1, 2, 101}

\* --------------------------------------------------------------- key layout

getMetaKey(queueName) == <<"bull", ":">> \o queueName \o <<":", "meta">>
getWaitKey(queueName) == <<"bull", ":">> \o queueName \o <<":", "wait">>
getActiveKey(queueName) == <<"bull", ":">> \o queueName \o <<":", "active">>
getCompletedKey(queueName) == <<"bull", ":">> \o queueName \o <<":", "completed">>
getFailedKey(queueName) == <<"bull", ":">> \o queueName \o <<":", "failed">>
getDelayedKey(queueName) == <<"bull", ":">> \o queueName \o <<":", "delayed">>
getJobKey(queueName, jobId) == <<"bull", ":">> \o queueName \o <<":">> \o jobId

\* ------------------------------------------------------------ Redis values

\* A field of a job hash: a string of decimal digits, a JSON text (v is the
\* object it encodes, a record), another string, or no field at all.
Absent == [t |-> "absent"]
Digits(n) == [t |-> "digits", n |-> n]
JsonText(v) == [t |-> "json", v |-> v]
BadJson == [t |-> "text", s |-> "{not json"]

NoHash ==
  [data |-> Absent, opts |-> Absent, failedReason |-> Absent,
   stacktrace |-> Absent, attemptsMade |-> Absent, timestamp |-> Absent,
   processedOn |-> Absent, finishedOn |-> Absent, returnvalue |-> Absent,
   delay |-> Absent]

\* A job as BullMQ writes it when it is added.
HashAdded ==
  [NoHash EXCEPT !.data = JsonText([to |-> "user"]),
                 !.opts = JsonText([attempts |-> 3]),
                 !.attemptsMade = Digits(0), !.timestamp = Digits(500)]
\* A job that has been processed to the end.
HashFinished ==
  [HashAdded EXCEPT !.attemptsMade = Digits(1), !.processedOn = Digits(600),
                    !.finishedOn = Digits(900),
                    !.returnvalue = JsonText([sent |-> TRUE])]
\* A job whose payload is not JSON.
HashBadPayload == [HashAdded EXCEPT !.data = BadJson]

SampleHashes == {HashAdded, HashFinished, HashBadPayload}

NoKey == [t |-> "none"]
ListVal(items) == [t |-> "list", v |-> items]
ZSetVal(pairs) == [t |-> "zset", v |-> pairs]
HashVal(h) == [t |-> "hash", v |-> h]


\* ---------------------------------------------------------- Redis commands

\* Byte order of the atoms used, for Redis' ordering of equal scores and for
\* the order in which SCAN is taken to walk the keys.
Alphabet ==
  <<":", "bull", "emails", "eu", "j1", "j2", "j3", "mail", "meta">>
AtomRank(a) == CHOOSE i \in 1..Len(Alphabet) : Alphabet[i] = a

RECURSIVE LexLess(_, _)
LexLess(a, b) ==
  IF b = <<>> THEN FALSE
  ELSE IF a = <<>> THEN TRUE
  ELSE IF Head(a) = Head(b) THEN LexLess(Tail(a), Tail(b))
  ELSE AtomRank(Head(a)) < AtomRank(Head(b))

\* The order of a sorted set: by score, then by member.
ZLess(p, q) == p[2] < q[2] \/ (p[2] = q[2] /\ LexLess(p[1], q[1]))

Reverse(seq) == [i \in 1..Len(seq) |-> seq[Len(seq) + 1 - i]]

RECURSIVE SeqWithout(_, _)
SeqWithout(seq, m) ==
  IF seq = <<>> THEN <<>>
  ELSE IF Head(seq) = m THEN SeqWithout(Tail(seq), m)
  ELSE <<Head(seq)>> \o SeqWithout(Tail(seq), m)

RECURSIVE PairsWithout(_, _)
PairsWithout(pairs, m) ==
  IF pairs = <<>> THEN <<>>
  ELSE IF Head(pairs)[1] = m THEN PairsWithout(Tail(pairs), m)
  ELSE <<Head(pairs)>> \o PairsWithout(Tail(pairs), m)

RECURSIVE InsertSorted(_, _)
InsertSorted(pairs, p) ==
  IF pairs = <<>> THEN <<p>>
  ELSE IF ZLess(p, Head(pairs)) THEN <<p>> \o pairs
  ELSE <<Head(pairs)>> \o InsertSorted(Tail(pairs), p)

Members(pairs) == [i \in 1..Len(pairs) |-> pairs[i][1]]

KeyValue(s, key) == IF key \in DOMAIN s THEN s[key] ELSE NoKey

\* LRANGE / ZRANGE index arithmetic: negative indices count from the end,
\* the stop index is inclusive and is cut to the last element.
RangeOf(seq, start, stop) ==
  LET n == Len(seq)
      a0 == IF start < 0 THEN n + start ELSE start
      a == IF a0 < 0 THEN 0 ELSE a0
      b0 == IF stop < 0 THEN n + stop ELSE stop
      b == IF b0 >= n THEN n - 1 ELSE b0
  IN IF a > b \/ a >= n THEN <<>> ELSE SubSeq(seq, a + 1, b + 1)

WrongType == [ok |-> FALSE, error |-> "WRONGTYPE"]

\* LPOS key member: found is FALSE for Redis' null reply.
LPOS(s, key, m) ==
  LET val == KeyValue(s, key)
  IN IF val.t = "none" THEN [ok |-> TRUE, found |-> FALSE]
     ELSE IF val.t = "list"
       THEN [ok |-> TRUE, found |-> \E i \in 1..Len(val.v) : val.v[i] = m]
     ELSE WrongType

\* ZSCORE key member.
ZSCORE(s, key, m) ==
  LET val == KeyValue(s, key)
  IN IF val.t = "none" THEN [ok |-> TRUE, found |-> FALSE]
     ELSE IF val.t = "zset"
       THEN [ok |-> TRUE, found |-> \E i \in 1..Len(val.v) : val.v[i][1] = m]
     ELSE WrongType

LRANGE(s, key, start, stop) ==
  LET val == KeyValue(s, key)
  IN IF val.t = "none" THEN [ok |-> TRUE, ids |-> <<>>]
     ELSE IF val.t = "list"
       THEN [ok |-> TRUE, ids |-> RangeOf(val.v, start, stop)]
     ELSE WrongType

ZRANGE(s, key, start, stop) ==
  LET val == KeyValue(s, key)
  IN IF val.t = "none" THEN [ok |-> TRUE, ids |-> <<>>]
     ELSE IF val.t = "zset"
       THEN [ok |-> TRUE, ids |-> RangeOf(Members(val.v), start, stop)]
     ELSE WrongType

ZREVRANGE(s, key, start, stop) ==
  LET val == KeyValue(s, key)
  IN IF val.t = "none" THEN [ok |-> TRUE, ids |-> <<>>]
     ELSE IF val.t = "zset"
       THEN [ok |-> TRUE, ids |-> RangeOf(Reverse(Members(val.v)), start, stop)]
     ELSE WrongType

ZREVRANGEWITHSCORES(s, key, start, stop) ==
  LET val == KeyValue(s, key)
  IN IF val.t = "none" THEN [ok |-> TRUE, pairs |-> <<>>]
     ELSE IF val.t = "zset"
       THEN [ok |-> TRUE, pairs |-> RangeOf(Reverse(val.v), start, stop)]
     ELSE WrongType

\* LLEN key and ZCARD key.
LLEN(s, key) ==
  LET val == KeyValue(s, key)
  IN IF val.t = "none" THEN [ok |-> TRUE, n |-> 0]
     ELSE IF val.t = "list" THEN [ok |-> TRUE, n |-> Len(val.v)]
     ELSE WrongType

ZCARD(s, key) ==
  LET val == KeyValue(s, key)
  IN IF val.t = "none" THEN [ok |-> TRUE, n |-> 0]
     ELSE IF val.t = "zset" THEN [ok |-> TRUE, n |-> Len(val.v)]
     ELSE WrongType

\* The glob bull:*:meta of SCAN's MATCH.
MatchesMetaGlob(key) ==
  /\ Len(key) >= 4
  /\ key[1] = "bull" /\ key[2] = ":"
  /\ key[Len(key) - 1] = ":" /\ key[Len(key)] = "meta"

\* A set of keys as a sequence in ascending order.
RECURSIVE KeysInOrder(_)
KeysInOrder(keys) ==
  IF keys = {} THEN <<>>
  ELSE LET least == CHOOSE k \in keys : \A other \in keys \ {k} : LexLess(k, other)
       IN <<least>> \o KeysInOrder(keys \ {least})

\* The replies SCAN cursor MATCH bull:*:meta may give: the matching keys not
\* yet walked, or a part of them with a cursor to go on from.
SCAN(s, cursor) ==
  LET matching == KeysInOrder({k \in DOMAIN s : MatchesMetaGlob(k)})
  IN IF cursor >= Len(matching) THEN {[ok |-> TRUE, cursor |-> 0, keys |-> <<>>]}
     ELSE {[ok |-> TRUE, cursor |-> IF n = Len(matching) THEN 0 ELSE n,
            keys |-> SubSeq(matching, cursor + 1, n)] :
             n \in (cursor + 1)..Len(matching)}

\* HGETALL key: an absent key reads as the empty hash.
HGETALL(s, key) ==
  LET val == KeyValue(s, key)
  IN IF val.t = "none" THEN [ok |-> TRUE, hash |-> NoHash]
     ELSE IF val.t = "hash" THEN [ok |-> TRUE, hash |-> val.v]
     ELSE WrongType

\* ------------------------------------------------------- JavaScript values

JNull == [k |-> "null"]
JUndefined == [k |-> "undefined"]
JNaN == [k |-> "NaN"]
JNumber(n) == [k |-> "number", n |-> n]
JString(x) == [k |-> "string", s |-> x]
JParsed(v) == [k |-> "parsed", v |-> v]

\* A hash field is truthy when it is present and not the empty string.
Truthy(f) == f.t # "absent" /\ ~(f.t = "text" /\ f.s = "")

\* JSON.parse(f) throws a SyntaxError on a text that is not JSON.
JsonParses(f) == f.t \in {"json", "digits"}
JsonParse(f) == IF f.t = "digits" THEN JNumber(f.n) ELSE JParsed(f.v)

\* parseInt(f, 10): NaN unless the string is one of digits.
ParseInt(f) == IF f.t = "digits" THEN JNumber(f.n) ELSE JNaN

\* JSON.parse(opts).attempts: undefined when the parsed value has no such
\* property.
AttemptsOf(f) ==
  IF f.t = "json" /\ "attempts" \in DOMAIN f.v THEN JNumber(f.v.attempts)
  ELSE JUndefined

\* ------------------------------------------------------------ fetchJobData

Ok(v) == [ok |-> TRUE, value |-> v]
Err(e) == [ok |-> FALSE, error |-> e]

\* The parse at the end of fetchJobData (lines 407-433).
ParseJob(h, queueName, jobId, status) ==
  IF \E f \in {h.data, h.stacktrace, h.opts, h.returnvalue} :
       Truthy(f) /\ ~JsonParses(f)
  THEN Err("SyntaxError")
  ELSE Ok([id |-> jobId,
           queueName |-> queueName,
           data |-> IF Truthy(h.data) THEN JsonParse(h.data) ELSE JNull,
           status |-> status,
           error |-> IF Truthy(h.failedReason) THEN JString(h.failedReason.s)
                     ELSE JNull,
           stacktrace |-> IF Truthy(h.stacktrace) THEN JsonParse(h.stacktrace)
                          ELSE JNull,
           attempts |-> IF Truthy(h.attemptsMade) THEN ParseInt(h.attemptsMade)
                        ELSE JNumber(0),
           maxAttempts |-> IF Truthy(h.opts) THEN AttemptsOf(h.opts)
                           ELSE JUndefined,
           timestamp |-> IF Truthy(h.timestamp) THEN ParseInt(h.timestamp)
                         ELSE JNumber(0),
           processedOn |-> IF Truthy(h.processedOn) THEN ParseInt(h.processedOn)
                           ELSE JNull,
           finishedOn |-> IF Truthy(h.finishedOn) THEN ParseInt(h.finishedOn)
                          ELSE JNull,
           returnvalue |-> IF Truthy(h.returnvalue) THEN JsonParse(h.returnvalue)
                           ELSE JUndefined,
           delay |-> IF Truthy(h.delay) THEN ParseInt(h.delay) ELSE JUndefined])

\* A fetchJobData that takes the empty hash for a job.
FetchJobDataOfAnyHash(reply, queueName, jobId, status) ==
  IF ~reply.ok THEN Err(reply.error)
  ELSE ParseJob(reply.hash, queueName, jobId, status)

\* fetchJobData after its HGETALL was answered with `reply`.
FetchJobData(reply, queueName, jobId, status) ==
  IF ~reply.ok THEN Err(reply.error)
  ELSE IF reply.hash = NoHash THEN Err("NotFound")
  ELSE ParseJob(reply.hash, queueName, jobId, status)

\* ------------------------------------------------------------------- state

VARIABLES
  store,       \* the Redis store: key -> value, for the keys that exist
  brokerOps,   \* writes made to the store so far by the producing application
  client,      \* this.client: a connection (an index of conns) or NULL
  subscriber,  \* this.subscriber: a connection or NULL
  conns,       \* every connection the adapter has created, in creation order
  tasks,       \* every lifecycle call made so far, in call order
  rd,          \* the read call in flight, or the last one with its result
  notified,    \* the keyspace notifications received so far, in order
  delivered,   \* the listener's invocations so far, in order
  quiesced,    \* a disconnect call has returned and no connect call was made since
  machine      \* the state of the specification's connection state machine

brokerVars == <<store, brokerOps>>
lifeVars == <<client, subscriber, conns, tasks, quiesced, machine>>
notifyVars == <<notified, delivered>>
vars == <<store, brokerOps, client, subscriber, conns, tasks, rd, notified,
          delivered, quiesced, machine>>

\* ------------------------------------------------------ the store's content

ListStatuses == {"waiting", "active"}
ZSetStatuses == {"completed", "failed", "delayed"}
JobStatuses == ListStatuses \cup ZSetStatuses

\* The index key of a status (the template literals of getJobs and getJob).
IndexKey(queueName, status) ==
  CASE status = "waiting" -> getWaitKey(queueName)
    [] status = "active" -> getActiveKey(queueName)
    [] status = "completed" -> getCompletedKey(queueName)
    [] status = "failed" -> getFailedKey(queueName)
    [] status = "delayed" -> getDelayedKey(queueName)

\* A store with value val at key; an empty list or sorted set is no key.
Put(s, key, val) ==
  IF val.t \in {"list", "zset"} /\ val.v = <<>>
  THEN [k \in DOMAIN s \ {key} |-> s[k]]
  ELSE [k \in DOMAIN s \cup {key} |-> IF k = key THEN val ELSE s[k]]

Remove(s, key) == [k \in DOMAIN s \ {key} |-> s[k]]

EmptyStore == [k \in {} |-> NoKey]

\* A store with the meta key that BullMQ writes for a queue.
QueueStore(queueName) ==
  Put(EmptyStore, getMetaKey(queueName),
      HashVal([NoHash EXCEPT !.opts = JsonText([maxLenEvents |-> 10000])]))

RECURSIVE PutHashes(_, _, _, _)
PutHashes(s, queueName, ids, h) ==
  IF ids = <<>> THEN s
  ELSE PutHashes(Put(s, getJobKey(queueName, Head(ids)), HashVal(h)),
                 queueName, Tail(ids), h)

\* Three waiting jobs.
SeedLists ==
  PutHashes(Put(QueueStore(Emails), getWaitKey(Emails), ListVal(<<J1, J2, J3>>)),
            Emails, <<J1, J2, J3>>, HashAdded)

\* One waiting, one active and one completed job.
SeedMixed ==
  LET s1 == Put(QueueStore(Emails), getWaitKey(Emails), ListVal(<<J1>>))
      s2 == Put(s1, getActiveKey(Emails), ListVal(<<J2>>))
      s3 == Put(s2, getCompletedKey(Emails), ZSetVal(<<<<J3, 1000>>>>))
  IN PutHashes(PutHashes(s3, Emails, <<J1, J2>>, HashAdded),
               Emails, <<J3>>, HashFinished)

\* Two completed jobs, the older one with the greater id, and a delayed one.
SeedSets ==
  LET s1 == Put(QueueStore(Emails), getCompletedKey(Emails),
                ZSetVal(<<<<J2, 1000>>, <<J1, 2000>>>>))
      s2 == Put(s1, getDelayedKey(Emails), ZSetVal(<<<<J3, 2000>>>>))
  IN PutHashes(PutHashes(s2, Emails, <<J1, J2>>, HashFinished),
               Emails, <<J3>>, HashAdded)

Seeds == {SeedLists, SeedMixed, SeedSets}

\* The fields of a job hash that fetchJobData hands to JSON.parse and those
\* it hands to parseInt.
PayloadFields == {"data", "opts", "returnvalue", "stacktrace"}
StructuralFields ==
  {"timestamp", "processedOn", "finishedOn", "delay", "attemptsMade"}

\* The record of a finished job, and the same with one field holding a
\* string that is neither JSON nor a number.
DecodeHashes ==
  {HashFinished}
  \cup {[HashFinished EXCEPT ![f] = BadJson] : f \in PayloadFields \cup StructuralFields}

\* A store with the one job j1 of record h in the index of status.
SeedDecode(h, status) ==
  PutHashes(Put(QueueStore(Emails), IndexKey(Emails, status),
                IF status \in ListStatuses THEN ListVal(<<J1>>)
                ELSE ZSetVal(<<<<J1, 1000>>>>)),
            Emails, <<J1>>, h)

\* Two completed jobs and a failed one with records that BullMQ would not
\* write: the older completed job was finished before it was started, the
\* newer one has both timestamps and a payload that is not JSON.
SeedSkewed ==
  LET s1 == Put(QueueStore(Emails), getCompletedKey(Emails),
                ZSetVal(<<<<J1, 1000>>, <<J2, 2000>>>>))
      s2 == Put(s1, getFailedKey(Emails), ZSetVal(<<<<J3, 2000>>>>))
      s3 == PutHashes(s2, Emails, <<J1>>,
                      [HashFinished EXCEPT !.processedOn = Digits(900),
                                           !.finishedOn = Digits(600)])
      s4 == PutHashes(s3, Emails, <<J2>>, [HashFinished EXCEPT !.data = BadJson])
  IN PutHashes(s4, Emails, <<J3>>, HashFinished)

\* A store with BulkSize completed and BulkSize failed jobs, the ids being
\* numerals, each set scored 1001, 1002, ... in the order of its ids. Of the
\* completed jobs the one of the least score and the one of the greatest
\* score have a record, with both timestamps.
SeedBulk ==
  LET id(n) == <<ToString(n)>>
      s1 == Put(QueueStore(Emails), getCompletedKey(Emails),
                ZSetVal([n \in 1..BulkSize |-> <<id(n), 1000 + n>>]))
      s2 == Put(s1, getFailedKey(Emails),
                ZSetVal([n \in 1..BulkSize |-> <<id(BulkSize + n), 1000 + n>>]))
  IN PutHashes(s2, Emails, <<id(1), id(BulkSize)>>, HashFinished)

\* --------------------------------------------------------------------- Init

\* No read call: none was made yet, or the caller is done with the last one.
\* Beside the call's own variables, a read call records what the properties
\* speak of: cmds, the commands it has sent; connected, that this.client was
\* set when it was called; was, the state of the specification's state machine
\* when it was called, and pending, that a connect call was in flight then;
\* failed, that one of its commands was rejected or
\* found this.client cleared; lost, the positions of getJobs' page whose
\* HGETALL was rejected or not sent; mutated, that the store was written since
\* the call (or the getJobs call before it) began; back, that the job of a
\* getJob call was moved into an index the call had probed; listed, what the getJobs
\* call before a getJob call returned; tally, what a caller who sums up sizes
\* holds: the queues of the last listQueues call, and the number of jobs that
\* each getJobs call since then returned, by status.
NotListed == [status |-> "none", queueName |-> <<>>, ids |-> <<>>]
Idle ==
  [op |-> "idle", pc |-> "done", args |-> <<>>, conn |-> 0, idx |-> 0,
   jobIds |-> <<>>, jobs |-> <<>>, work |-> <<>>, cmds |-> <<>>,
   res |-> Ok(<<>>), connected |-> FALSE, was |-> "disconnected",
   pending |-> FALSE, failed |-> FALSE, lost |-> {}, mutated |-> FALSE,
   back |-> FALSE,
   listed |-> NotListed, tally |-> [queues |-> <<>>, sizes |-> <<>>]]

\* The adapter as its constructor leaves it, and nothing done yet.
Fresh ==
  /\ brokerOps = 0
  /\ client = NULL
  /\ subscriber = NULL
  /\ conns = <<>>
  /\ tasks = <<>>
  /\ rd = Idle
  /\ notified = <<>>
  /\ delivered = <<>>
  /\ quiesced = FALSE
  /\ machine = "disconnected"

Init == store \in Seeds /\ Fresh

\* ------------------------------------------- the producing application

\* A write to the store marks the read call in flight or just returned.
Mutate(s) ==
  /\ brokerOps < MaxBrokerOps
  /\ brokerOps' = brokerOps + 1
  /\ store' = s
  /\ store' # store
  /\ rd' = IF rd.op # "idle" THEN [rd EXCEPT !.mutated = TRUE] ELSE rd
  /\ UNCHANGED <<lifeVars, notifyVars>>

\* LPUSH of a job id on the wait or active list.
BrokerLPush(queueName, status, jobId) ==
  LET key == IndexKey(queueName, status)
      val == KeyValue(store, key)
  IN /\ val.t \in {"none", "list"}
     /\ Mutate(Put(store, key,
                   ListVal(<<jobId>> \o (IF val.t = "list" THEN val.v ELSE <<>>))))

\* ZADD of a job id to the completed, failed or delayed set.
BrokerZAdd(queueName, status, jobId, score) ==
  LET key == IndexKey(queueName, status)
      val == KeyValue(store, key)
      old == IF val.t = "zset" THEN PairsWithout(val.v, jobId) ELSE <<>>
  IN /\ val.t \in {"none", "zset"}
     /\ Mutate(Put(store, key, ZSetVal(InsertSorted(old, <<jobId, score>>))))

\* LREM / ZREM of a job id from an index.
BrokerRem(queueName, status, jobId) ==
  LET key == IndexKey(queueName, status)
      val == KeyValue(store, key)
  IN /\ val.t \in {"list", "zset"}
     /\ Mutate(Put(store, key,
                   IF val.t = "list" THEN ListVal(SeqWithout(val.v, jobId))
                   ELSE ZSetVal(PairsWithout(val.v, jobId))))

\* HSET of a job's hash.
BrokerHSet(queueName, jobId, h) ==
  Mutate(Put(store, getJobKey(queueName, jobId), HashVal(h)))

\* DEL of a job's hash.
BrokerDel(queueName, jobId) ==
  /\ getJobKey(queueName, jobId) \in DOMAIN store
  /\ Mutate(Remove(store, getJobKey(queueName, jobId)))

Broker ==
  \E queueName \in QueueNames, jobId \in JobIds :
    \/ \E status \in ListStatuses : BrokerLPush(queueName, status, jobId)
    \/ \E status \in ZSetStatuses, score \in Scores :
         BrokerZAdd(queueName, status, jobId, score)
    \/ \E status \in JobStatuses : BrokerRem(queueName, status, jobId)
    \/ \E h \in SampleHashes : BrokerHSet(queueName, jobId, h)
    \/ BrokerDel(queueName, jobId)

\* ------------------------------------------------- commands on a connection

\* A command sent on a connection that is not ready yet waits in ioredis'
\* offline queue; on a closed connection it is rejected.
Answered(c) == conns[c].st \in {"ready", "closed"}

\* The replies a command may get: the store's answer, or a rejection (the
\* connection is closed, or the I/O failed).
Rejections == {"ConnectionClosed", "Transport"}
Replies(c, answer) ==
  IF conns[c].st = "closed" THEN {Err("ConnectionClosed")}
  ELSE {answer, Err("Transport")}
Rejected(reply) == ~reply.ok /\ reply.error \in Rejections

\* ------------------------------------------------------------------- getJob

\* A probe order that begins with the delayed set.
ProbeOrderDelayedFirst ==
  <<"delayed", "waiting", "active", "completed", "failed">>

\* A probe order that begins with the active list.
ProbeOrderActiveFirst ==
  <<"active", "waiting", "completed", "failed", "delayed">>

\* The order in which getJob probes the indexes.
ProbeOrder == <<"waiting", "active", "completed", "failed", "delayed">>

\* A probe that looks into the lists only.
ProbeOfLists(s, queueName, status, jobId) ==
  IF status \in ListStatuses THEN LPOS(s, IndexKey(queueName, status), jobId)
  ELSE ZSCORE(EmptyStore, IndexKey(queueName, status), jobId)

\* The probe of one index: LPOS on the lists, ZSCORE on the sorted sets.
ProbeName(status) == IF status \in ListStatuses THEN "lpos" ELSE "zscore"
Probe(s, queueName, status, jobId) ==
  IF status \in ListStatuses THEN LPOS(s, IndexKey(queueName, status), jobId)
  ELSE ZSCORE(s, IndexKey(queueName, status), jobId)

\* A connect call is waiting for its connection.
ConnectPending ==
  \E t \in 1..Len(tasks) : tasks[t].op = "connect" /\ tasks[t].pc = "wait"

\* The operations of the lifecycle calls that have not returned yet.
InFlight == {tasks[t].op : t \in {u \in 1..Len(tasks) : tasks[u].pc # "done"}}

NewRead(op, args) ==
  [Idle EXCEPT !.op = op, !.args = args, !.connected = client # NULL,
               !.was = machine, !.pending = ConnectPending]

\* The ids of the jobs of a list, in order.
JobIdsOf(jobs) == [i \in 1..Len(jobs) |-> jobs[i].id]

\* What the getJobs call that has just returned Ok listed.
Listed ==
  IF rd.op = "getJobs" /\ rd.res.ok
  THEN [status |-> rd.args.status, queueName |-> rd.args.queueName,
        ids |-> JobIdsOf(rd.res.value)]
  ELSE NotListed

\* The caller is done with the result of the last read call.
ReadReturn ==
  /\ rd.op # "idle" /\ rd.pc = "done"
  /\ rd' = Idle
  /\ UNCHANGED <<brokerVars, lifeVars, notifyVars>>

\* A read call returns result. The caller who sums up sizes notes the queues
\* that listQueues returned, and the size of the list that getJobs returned.
Finish(r, result) ==
  [r EXCEPT !.pc = "done", !.res = result,
            !.tally =
              IF ~result.ok THEN @
              ELSE IF r.op = "listQueues" THEN [@ EXCEPT !.queues = result.value]
              ELSE IF r.op = "getJobs" /\ @.queues # <<>>
                THEN [@ EXCEPT !.sizes =
                        [st \in DOMAIN @ \cup {r.args.status} |->
                           IF st = r.args.status THEN Len(result.value)
                           ELSE @[st]]]
              ELSE @]

\* getJob up to its first await: the guard, and the LPOS on the wait list.
GetJobCall(queueName, jobId) ==
  /\ rd = Idle \/ (rd.op = "getJobs" /\ rd.pc = "done")
  /\ LET r == [NewRead("getJob", [queueName |-> queueName, jobId |-> jobId])
                EXCEPT !.listed = Listed, !.mutated = rd.mutated /\ Listed # NotListed]
     IN rd' = IF client = NULL THEN Finish(r, Err("NotConnected"))
              ELSE [r EXCEPT !.pc = "probe", !.idx = 1, !.conn = client,
                     !.cmds = <<<<ProbeName(ProbeOrder[1]),
                                  IndexKey(queueName, ProbeOrder[1])>>>>]
  /\ UNCHANGED <<brokerVars, lifeVars, notifyVars>>

\* The probe of index idx is answered, and getJob runs to its next await:
\* a hit calls fetchJobData, a miss probes the next index.
GetJobProbe ==
  /\ rd.op = "getJob" /\ rd.pc = "probe"
  /\ Answered(rd.conn)
  /\ \E reply \in Replies(rd.conn, Probe(store, rd.args.queueName,
                                         ProbeOrder[rd.idx], rd.args.jobId)) :
       rd' =
         IF ~reply.ok
           THEN Finish([rd EXCEPT !.failed = Rejected(reply)], Err(reply.error))
         ELSE IF reply.found THEN
           IF client = NULL
             THEN Finish([rd EXCEPT !.failed = TRUE], Err("NotConnectedInner"))
           ELSE [rd EXCEPT !.pc = "fetch", !.conn = client,
                   !.cmds = Append(@, <<"hgetall",
                      getJobKey(rd.args.queueName, rd.args.jobId)>>)]
         ELSE IF rd.idx = Len(ProbeOrder) THEN Finish(rd, Err("NotFound"))
         ELSE IF client = NULL
           THEN Finish([rd EXCEPT !.failed = TRUE], Err("TypeError"))
         ELSE [rd EXCEPT !.idx = @ + 1, !.conn = client,
                 !.cmds = Append(@, <<ProbeName(ProbeOrder[rd.idx + 1]),
                    IndexKey(rd.args.queueName, ProbeOrder[rd.idx + 1])>>)]
  /\ UNCHANGED <<brokerVars, lifeVars, notifyVars>>

\* fetchJobData's HGETALL is answered and getJob returns its result.
GetJobFetch ==
  /\ rd.op = "getJob" /\ rd.pc = "fetch"
  /\ Answered(rd.conn)
  /\ \E reply \in Replies(rd.conn,
          HGETALL(store, getJobKey(rd.args.queueName, rd.args.jobId))) :
       rd' = Finish([rd EXCEPT !.failed = Rejected(reply)],
                    FetchJobData(reply, rd.args.queueName, rd.args.jobId,
                                 ProbeOrder[rd.idx]))
  /\ UNCHANGED <<brokerVars, lifeVars, notifyVars>>

\* ------------------------------------------------------------------ getJobs

\* The options a caller passes: offset and limit are optional.
GetJobsOptions ==
  [queueName : QueueNames, status : JobStatuses, offset : OffsetArgs,
   limit : LimitArgs]
  \cup [queueName : QueueNames, status : StatusArgs]

\* const { queueName, status, offset = 0, limit = 100 } = options
OffsetOf(options) ==
  IF "offset" \in DOMAIN options THEN options.offset ELSE DefaultOffset
LimitOf(options) ==
  IF "limit" \in DOMAIN options THEN options.limit ELSE DefaultLimit

RangeStart(options) == OffsetOf(options)
RangeStop(options) == OffsetOf(options) + LimitOf(options) - 1

\* A switch that reads every sorted set with ZRANGE.
RangeReadAscending(s, queueName, status, start, stop) ==
  IF status \in ListStatuses
  THEN LRANGE(s, IndexKey(queueName, status), start, stop)
  ELSE ZRANGE(s, IndexKey(queueName, status), start, stop)

\* The range read of getJobs' switch, by status.
RangeName(status) ==
  CASE status \in ListStatuses -> "lrange"
    [] status \in {"completed", "failed"} -> "zrevrange"
    [] status = "delayed" -> "zrange"

RangeRead(s, queueName, status, start, stop) ==
  CASE status \in ListStatuses ->
         LRANGE(s, IndexKey(queueName, status), start, stop)
    [] status \in {"completed", "failed"} ->
         ZREVRANGE(s, IndexKey(queueName, status), start, stop)
    [] status = "delayed" ->
         ZRANGE(s, IndexKey(queueName, status), start, stop)

\* A default case that returns an empty page.
EmptyPageForStatus(status) == Ok(<<>>)

\* The default case of the switch.
UnknownJobStatus(status) == Err("UnknownStatus")

\* getJobs up to its first await: the guard, the range, and the switch that
\* sends the range read or rejects the status. A caller who holds the queues
\* of listQueues may call it without a limit for a status not yet listed, and
\* the call then keeps the caller's books.
GetJobsCall(options) ==
  /\ \/ rd = Idle
     \/ /\ rd.pc = "done" /\ rd.tally.queues # <<>>
        /\ "limit" \notin DOMAIN options
        /\ options.status \notin DOMAIN rd.tally.sizes
  /\ LET r == [NewRead("getJobs", options) EXCEPT
                !.tally = rd.tally,
                !.mutated = rd.mutated /\ rd.tally.queues # <<>>,
                !.failed = rd.failed /\ rd.tally.queues # <<>>]
     IN rd' =
          IF client = NULL THEN Finish(r, Err("NotConnected"))
          ELSE IF options.status \notin JobStatuses
            THEN Finish(r, UnknownJobStatus(options.status))
          ELSE [r EXCEPT !.pc = "range", !.conn = client,
                 !.cmds = <<<<RangeName(options.status),
                              IndexKey(options.queueName, options.status),
                              RangeStart(options), RangeStop(options)>>>>]
  /\ UNCHANGED <<brokerVars, lifeVars, notifyVars>>

RECURSIVE HGetAllCmds(_, _)
HGetAllCmds(queueName, ids) ==
  IF ids = <<>> THEN <<>>
  ELSE <<<<"hgetall", getJobKey(queueName, Head(ids))>>>>
       \o HGetAllCmds(queueName, Tail(ids))

\* The range read is answered; getJobs calls fetchJobData for every id, each
\* of which checks this.client and sends its HGETALL in the same turn.
GetJobsRange ==
  /\ rd.op = "getJobs" /\ rd.pc = "range"
  /\ Answered(rd.conn)
  /\ \E reply \in Replies(rd.conn,
          RangeRead(store, rd.args.queueName, rd.args.status,
                    RangeStart(rd.args), RangeStop(rd.args))) :
       rd' =
         IF ~reply.ok
           THEN Finish([rd EXCEPT !.failed = @ \/ Rejected(reply)],
                       Err(reply.error))
         ELSE IF reply.ids = <<>>
           THEN Finish([rd EXCEPT !.jobIds = reply.ids], Ok(<<>>))
         ELSE IF client = NULL
           THEN Finish([rd EXCEPT !.jobIds = reply.ids, !.failed = TRUE,
                                  !.lost = 1..Len(reply.ids)], Ok(<<>>))
         ELSE [rd EXCEPT !.pc = "fetch", !.conn = client, !.idx = 1,
                 !.jobIds = reply.ids,
                 !.cmds = @ \o HGetAllCmds(rd.args.queueName, reply.ids)]
  /\ UNCHANGED <<brokerVars, lifeVars, notifyVars>>

\* A filter that puts the job kept before the others.
KeptFirst(jobs, result) ==
  IF result.ok THEN <<result.value>> \o jobs ELSE jobs

\* The filter over the results (lines 364-370), one result at a time.
Kept(jobs, result) ==
  IF result.ok THEN Append(jobs, result.value) ELSE jobs

\* The HGETALL of the idx-th id is answered: a result that is Ok is kept, any
\* other is skipped; after the last one getJobs returns the jobs kept.
GetJobsFetch ==
  /\ rd.op = "getJobs" /\ rd.pc = "fetch"
  /\ Answered(rd.conn)
  /\ \E reply \in Replies(rd.conn,
          HGETALL(store, getJobKey(rd.args.queueName, rd.jobIds[rd.idx]))) :
       LET result == FetchJobData(reply, rd.args.queueName, rd.jobIds[rd.idx],
                                  rd.args.status)
           jobs == Kept(rd.jobs, result)
           r == IF Rejected(reply)
                THEN [rd EXCEPT !.failed = TRUE, !.lost = @ \cup {rd.idx}]
                ELSE rd
       IN rd' = IF rd.idx = Len(rd.jobIds)
                  THEN Finish([r EXCEPT !.jobs = jobs], Ok(jobs))
                ELSE [r EXCEPT !.idx = @ + 1, !.jobs = jobs]
  /\ UNCHANGED <<brokerVars, lifeVars, notifyVars>>

\* --------------------------------------------------------------- listQueues

\* metaKey.match(/^bull:(.+):meta$/): the queue name, or no match when
\* nothing stands between the prefix and the suffix.
MetaKeyMatches(metaKey) == MatchesMetaGlob(metaKey) /\ Len(metaKey) >= 5
QueueNameOf(metaKey) == SubSeq(metaKey, 3, Len(metaKey) - 2)

\* The first position from i on of a meta key that matches, 0 for none.
NextMatch(metaKeys, i) ==
  IF \E j \in i..Len(metaKeys) : MetaKeyMatches(metaKeys[j])
  THEN CHOOSE j \in i..Len(metaKeys) :
         /\ MetaKeyMatches(metaKeys[j])
         /\ \A k \in i..(j - 1) : ~MetaKeyMatches(metaKeys[k])
  ELSE 0

\* Counts that take the length of the wait list for the active list too.
CountsOfWaitTwice(s, queueName) ==
  LET waiting == LLEN(s, getWaitKey(queueName))
      completed == ZCARD(s, getCompletedKey(queueName))
      failed == ZCARD(s, getFailedKey(queueName))
      delayed == ZCARD(s, getDelayedKey(queueName))
  IN IF \E r \in {waiting, completed, failed, delayed} : ~r.ok
     THEN WrongType
     ELSE [ok |-> TRUE, waiting |-> waiting.n, active |-> waiting.n,
           completed |-> completed.n, failed |-> failed.n,
           delayed |-> delayed.n]

\* The five counts of the Promise.all (lines 245-253): one failing command
\* rejects them all.
Counts(s, queueName) ==
  LET waiting == LLEN(s, getWaitKey(queueName))
      active == LLEN(s, getActiveKey(queueName))
      completed == ZCARD(s, getCompletedKey(queueName))
      failed == ZCARD(s, getFailedKey(queueName))
      delayed == ZCARD(s, getDelayedKey(queueName))
  IN IF \E r \in {waiting, active, completed, failed, delayed} : ~r.ok
     THEN WrongType
     ELSE [ok |-> TRUE, waiting |-> waiting.n, active |-> active.n,
           completed |-> completed.n, failed |-> failed.n,
           delayed |-> delayed.n]

CountCmds(queueName) ==
  <<<<"llen", getWaitKey(queueName)>>, <<"llen", getActiveKey(queueName)>>,
    <<"zcard", getCompletedKey(queueName)>>,
    <<"zcard", getFailedKey(queueName)>>,
    <<"zcard", getDelayedKey(queueName)>>>>

\* The connection info of a queue, from the client's options (lines 256-261).
ConnectionInfo == [host |-> "localhost", port |-> 6379]

\* A catch block that returns the queues assembled so far.
ListQueuesCatchPartial(r, error) == Finish(r, Ok(r.work.queues))

\* listQueues' catch block (lines 275-277): whatever was thrown, the call
\* returns Err and the queues assembled so far are dropped.
ListQueuesCatch(r, error) == Finish(r, Err(error))

\* listQueues from the for loop's meta key i on, up to its next await: the
\* counts of the next matching key are sent on this.client, or the queues
\* are returned.
ListQueuesFrom(r, i) ==
  LET j == NextMatch(r.work.metaKeys, i)
  IN IF j = 0 THEN Finish(r, Ok(r.work.queues))
     ELSE IF client = NULL
       THEN ListQueuesCatch([r EXCEPT !.failed = TRUE], "TypeError")
     ELSE [r EXCEPT !.pc = "counts", !.idx = j, !.conn = client,
             !.cmds = @ \o CountCmds(QueueNameOf(r.work.metaKeys[j]))]

\* listQueues up to its first await: the guard and the first SCAN.
ListQueuesCall ==
  /\ rd = Idle
  /\ LET r == NewRead("listQueues", <<>>)
     IN rd' = IF client = NULL THEN Finish(r, Err("NotConnected"))
              ELSE [r EXCEPT !.pc = "scan", !.conn = client,
                     !.work = [cursor |-> 0, metaKeys |-> <<>>,
                               queues |-> <<>>],
                     !.cmds = <<<<"scan", 0>>>>]
  /\ UNCHANGED <<brokerVars, lifeVars, notifyVars>>

\* A loop that ends after its first SCAN.
ScanOnce(cursor) == FALSE

\* The condition of the do-while loop (line 231).
ScanAgain(cursor) == cursor # 0

\* listQueues after the reply to a SCAN, up to its next await: the keys
\* are collected, and the next SCAN is sent unless the cursor is back at 0.
ListQueuesScanned(r0, reply) ==
  IF ~reply.ok
    THEN ListQueuesCatch([r0 EXCEPT !.failed = Rejected(reply)], reply.error)
  ELSE LET r == [r0 EXCEPT !.work.cursor = reply.cursor,
                           !.work.metaKeys = @ \o reply.keys]
       IN IF ScanAgain(reply.cursor)
          THEN IF client = NULL
               THEN ListQueuesCatch([r EXCEPT !.failed = TRUE], "TypeError")
               ELSE [r EXCEPT !.conn = client,
                       !.cmds = Append(@, <<"scan", reply.cursor>>)]
          ELSE ListQueuesFrom(r, 1)

\* A SCAN is answered with the next keys of the walk, or is rejected.
ListQueuesScan ==
  /\ rd.op = "listQueues" /\ rd.pc = "scan"
  /\ Answered(rd.conn)
  /\ \E answer \in SCAN(store, rd.work.cursor) :
       \E reply \in Replies(rd.conn, answer) :
         rd' = ListQueuesScanned(rd, reply)
  /\ UNCHANGED <<brokerVars, lifeVars, notifyVars>>

\* A SCAN is answered with a key more than once: Redis may return an
\* element several times in one walk, so the page holds, before the next
\* keys of the walk, a key of an earlier page or one of its own keys again.
ListQueuesScanRepeats ==
  /\ rd.op = "listQueues" /\ rd.pc = "scan"
  /\ conns[rd.conn].st = "ready"
  /\ \E answer \in SCAN(store, rd.work.cursor) :
       LET seen == rd.work.metaKeys \o answer.keys
       IN \E i \in 1..Len(seen) :
            rd' = ListQueuesScanned(rd, [answer EXCEPT !.keys = <<seen[i]>> \o @])
  /\ UNCHANGED <<brokerVars, lifeVars, notifyVars>>

\* The five counts of a queue are answered: the queue is added with the
\* options of this.client as it is now, and the loop goes on.
ListQueuesCounts ==
  /\ rd.op = "listQueues" /\ rd.pc = "counts"
  /\ Answered(rd.conn)
  /\ LET queueName == QueueNameOf(rd.work.metaKeys[rd.idx])
     IN \E reply \in Replies(rd.conn, Counts(store, queueName)) :
          rd' =
            IF ~reply.ok
              THEN ListQueuesCatch([rd EXCEPT !.failed = Rejected(reply)],
                                   reply.error)
            ELSE IF client = NULL
              THEN ListQueuesCatch([rd EXCEPT !.failed = TRUE], "TypeError")
            ELSE ListQueuesFrom(
                   [rd EXCEPT !.work.queues = Append(@,
                      [name |-> queueName, waiting |-> reply.waiting,
                       active |-> reply.active, completed |-> reply.completed,
                       failed |-> reply.failed, delayed |-> reply.delayed,
                       connection |-> ConnectionInfo])],
                   rd.idx + 1)
  /\ UNCHANGED <<brokerVars, lifeVars, notifyVars>>

\* --------------------------------------------------------------- getMetrics

\* Sample reads of the whole sets.
SamplesOfAll(s, queueName) ==
  LET completed == ZREVRANGEWITHSCORES(s, getCompletedKey(queueName), 0, -1)
      failed == ZREVRANGEWITHSCORES(s, getFailedKey(queueName), 0, -1)
  IN IF ~completed.ok \/ ~failed.ok THEN WrongType
     ELSE [ok |-> TRUE, completed |-> completed.pairs, failed |-> failed.pairs]

\* The two sample reads of the Promise.all (lines 523-531).
Samples(s, queueName) ==
  LET completed == ZREVRANGEWITHSCORES(s, getCompletedKey(queueName), 0, SampleStop)
      failed == ZREVRANGEWITHSCORES(s, getFailedKey(queueName), 0, SampleStop)
  IN IF ~completed.ok \/ ~failed.ok THEN WrongType
     ELSE [ok |-> TRUE, completed |-> completed.pairs, failed |-> failed.pairs]

\* The jobs of a sample with a timestamp after oneHourAgo.
RecentAfter(sample, oneHourAgo) ==
  Cardinality({i \in DOMAIN sample : sample[i][2] > oneHourAgo})

\* The jobs of a sample with a timestamp of at least oneHourAgo.
Recent(sample, oneHourAgo) ==
  Cardinality({i \in DOMAIN sample : sample[i][2] >= oneHourAgo})

\* a / b of two numbers, kept as a fraction.
Fraction(a, b) == [k |-> "fraction", num |-> a, den |-> b]

\* finishedOn - processedOn, and the sum: NaN when an operand is NaN.
Minus(a, b) ==
  IF a.k = "number" /\ b.k = "number" THEN JNumber(a.n - b.n) ELSE JNaN
Plus(a, b) ==
  IF a.k = "number" /\ b.k = "number" THEN JNumber(a.n + b.n) ELSE JNaN

\* A test that asks for no timestamp.
HasRecord(result) == result.ok

\* The test of the for loop (lines 580-584): the job was fetched, and
\* neither of its two timestamps is null.
HasProcessingTime(result) ==
  /\ result.ok
  /\ result.value.processedOn # JNull
  /\ result.value.finishedOn # JNull

\* The metrics returned (lines 592-599).
MetricsOf(w) ==
  [throughput |-> w.throughput,
   failureRate |-> w.failureRate,
   avgProcessingTime |->
     IF w.processedJobCount > 0
     THEN IF w.totalProcessingTime.k = "number"
          THEN Fraction(w.totalProcessingTime.n, w.processedJobCount)
          ELSE JNaN
     ELSE JNumber(0)]

\* getMetrics from the for loop's completed job i on, up to its next await:
\* fetchJobData checks this.client and sends its HGETALL, and without a
\* client every job left is skipped.
GetMetricsFrom(r, i) ==
  IF i > Len(r.work.completedJobs) THEN Finish(r, Ok(MetricsOf(r.work)))
  ELSE IF client = NULL
    THEN Finish([r EXCEPT !.failed = TRUE], Ok(MetricsOf(r.work)))
  ELSE [r EXCEPT !.pc = "fetch", !.idx = i, !.conn = client,
          !.cmds = Append(@, <<"hgetall",
             getJobKey(r.args.queueName, r.work.completedJobs[i][1])>>)]

\* getMetrics up to its first await: the guard and the two sample reads.
GetMetricsCall(queueName) ==
  /\ rd = Idle
  /\ LET r == NewRead("getMetrics", [queueName |-> queueName])
     IN rd' = IF client = NULL THEN Finish(r, Err("NotConnected"))
              ELSE [r EXCEPT !.pc = "samples", !.conn = client,
                     !.cmds = <<<<"zrevrange", getCompletedKey(queueName), 0,
                                  SampleStop, "WITHSCORES">>,
                                <<"zrevrange", getFailedKey(queueName), 0,
                                  SampleStop, "WITHSCORES">>>>]
  /\ UNCHANGED <<brokerVars, lifeVars, notifyVars>>

\* The samples are answered: throughput and failure rate are computed at
\* Date.now(), and the records of the completed jobs are fetched one by one.
GetMetricsSamples ==
  /\ rd.op = "getMetrics" /\ rd.pc = "samples"
  /\ Answered(rd.conn)
  /\ \E reply \in Replies(rd.conn, Samples(store, rd.args.queueName)),
        now \in Nows :
       rd' =
         IF ~reply.ok
           THEN Finish([rd EXCEPT !.failed = Rejected(reply)], Err(reply.error))
         ELSE LET oneHourAgo == now - OneHourMs
                  totalJobs == Len(reply.completed) + Len(reply.failed)
              IN GetMetricsFrom(
                   [rd EXCEPT !.work =
                      [now |-> now,
                       completedJobs |-> reply.completed,
                       failedJobs |-> reply.failed,
                       throughput |-> Recent(reply.completed, oneHourAgo)
                                      + Recent(reply.failed, oneHourAgo),
                       failureRate |->
                         IF totalJobs > 0
                         THEN Fraction(Len(reply.failed), totalJobs)
                         ELSE JNumber(0),
                       totalProcessingTime |-> JNumber(0),
                       processedJobCount |-> 0]],
                   1)
  /\ UNCHANGED <<brokerVars, lifeVars, notifyVars>>

\* The record of the idx-th completed job is answered: its processing time
\* is added when the job was fetched and has both timestamps.
GetMetricsFetch ==
  /\ rd.op = "getMetrics" /\ rd.pc = "fetch"
  /\ Answered(rd.conn)
  /\ \E reply \in Replies(rd.conn,
          HGETALL(store, getJobKey(rd.args.queueName,
                                   rd.work.completedJobs[rd.idx][1]))) :
       LET result == FetchJobData(reply, rd.args.queueName,
                                  rd.work.completedJobs[rd.idx][1], "completed")
           valid == HasProcessingTime(result)
           r0 == IF Rejected(reply) THEN [rd EXCEPT !.failed = TRUE] ELSE rd
           r == IF valid
                THEN [r0 EXCEPT
                        !.work.totalProcessingTime =
                           Plus(@, Minus(result.value.finishedOn,
                                         result.value.processedOn)),
                        !.work.processedJobCount = @ + 1]
                ELSE r0
       IN rd' = GetMetricsFrom(r, rd.idx + 1)
  /\ UNCHANGED <<brokerVars, lifeVars, notifyVars>>

\* -------------------------------------------------------------- connections

\* new Redis(...): a connection that is connecting. onReady and onError are
\* the calls (indexes of tasks) whose once('ready') and once('error') handlers
\* are registered on it, 0 for none; psub says that Redis holds its pattern
\* subscription, handler that the 'pmessage' handler is registered. For the
\* properties a connection counts the QUIT commands sent on it (quits) and
\* the calls of its disconnect() (forced), and records that it reported an
\* error or failed a command while open (faulty), the lifecycle commands
\* it rejected (rejected), and the call that created it (by).
\* options.db of a connection string without a database path; the database
\* index as its decimal digits.
Db0 == <<"0">>

NewConn(t) ==
  [st |-> "connecting", onReady |-> t, onError |-> t, psub |-> FALSE,
   handler |-> FALSE, quits |-> 0, forced |-> 0, faulty |-> FALSE, by |-> t,
   db |-> Db0, rejected |-> 0]

Open(c) == conns[c].st # "closed"

\* connection.disconnect(): the forced close.
CloseConn(cs, c) == [cs EXCEPT ![c].st = "closed", ![c].forced = @ + 1]

\* connection.quit() is called: QUIT is sent.
SendQuit(cs, c) == [cs EXCEPT ![c].quits = @ + 1]

\* A QUIT that is answered OK by a server that keeps the connection.
QuitAnsweredKept(cs, c) == cs

\* QUIT is answered OK: the server closes the connection.
QuitAnswered(cs, c) == [cs EXCEPT ![c].st = "closed"]

\* The close requests (QUIT or forced) made so far on the connections cs.
RECURSIVE CloseRequests(_)
CloseRequests(cs) ==
  IF cs = <<>> THEN 0
  ELSE Head(cs).quits + Head(cs).forced + CloseRequests(Tail(cs))

\* The adapter's fields, as one value that a handler transforms.
Life == [client |-> client, subscriber |-> subscriber, conns |-> conns]

\* The adapter's fields after connection c gave `reply` to a command.
Replied(c, reply) ==
  IF reply = Err("Transport")
    THEN [Life EXCEPT !.conns[c].faulty = TRUE, !.conns[c].rejected = @ + 1]
  ELSE IF ~reply.ok THEN [Life EXCEPT !.conns[c].rejected = @ + 1]
  ELSE Life

\* A lifecycle call as it is made. For the properties it records that no
\* other lifecycle call was in flight (alone), the state of the
\* specification's state machine (was), that a connect call was in flight
\* (pending), the close requests it made (closes), which of this.client
\* and this.subscriber were set (connected, subscribed), and the operations
\* of the calls that were in flight (beside).
NewTask(op) ==
  [op |-> op, pc |-> "done", conn |-> 0, res |-> Ok(<<>>),
   alone |-> \A t \in 1..Len(tasks) : tasks[t].pc = "done",
   was |-> machine, pending |-> ConnectPending, closes |-> 0,
   connected |-> client # NULL, subscribed |-> subscriber # NULL,
   beside |-> InFlight]

\* The connection strings a caller passes, as scheme and rest.
ConnectionStrings == {<<"redis://", "localhost:6379">>, <<"localhost:6379">>}
StartsWithRedis(connectionString) == Head(connectionString) = "redis://"

\* ------------------------------------------------------------------ connect

\* connect up to its await: the format check, new Redis, the two handlers.
ConnectCall(connectionString) ==
  /\ Len(tasks) < MaxTasks
  /\ IF ~StartsWithRedis(connectionString)
     THEN /\ tasks' = Append(tasks, [NewTask("connect") EXCEPT
                                      !.res = Err("InvalidFormat")])
          /\ UNCHANGED <<client, conns, quiesced>>
     ELSE /\ conns' = Append(conns, NewConn(Len(tasks) + 1))
          /\ client' = Len(conns) + 1
          /\ tasks' = Append(tasks, [NewTask("connect") EXCEPT
                                      !.pc = "wait", !.conn = Len(conns) + 1])
          /\ quiesced' = FALSE
  /\ UNCHANGED <<subscriber, machine, brokerVars, rd, notifyVars>>

\* ---------------------------------------------------------------- subscribe

\* A catch block that returns the error and leaves this.subscriber as it is.
SubscribeCatchKept(L, e) ==
  [life |-> L, pc |-> "done", conn |-> 0, res |-> Err(e)]

\* subscribe's catch block (lines 675-682).
SubscribeCatch(L, e) ==
  [life |-> IF L.subscriber # NULL
            THEN [L EXCEPT !.conns = CloseConn(@, L.subscriber),
                           !.subscriber = NULL]
            ELSE L,
   pc |-> "done", conn |-> 0, res |-> Err(e)]

\* subscribe after its subscriber became ready: the PSUBSCRIBE is sent on
\* this.subscriber as it is now.
SubscribeReady(L) ==
  IF L.subscriber = NULL THEN SubscribeCatch(L, "TypeError")
  ELSE [life |-> L, pc |-> "psub", conn |-> L.subscriber, res |-> Ok(<<>>)]

\* A subscribe without the second guard.
SubscribeCallUnguarded ==
  /\ Len(tasks) < MaxTasks
  /\ IF client = NULL
     THEN /\ tasks' = Append(tasks, [NewTask("subscribe") EXCEPT
                                      !.res = Err("NotConnected")])
          /\ UNCHANGED <<subscriber, conns>>
     ELSE /\ conns' = Append(conns, NewConn(Len(tasks) + 1))
          /\ subscriber' = Len(conns) + 1
          /\ tasks' = Append(tasks, [NewTask("subscribe") EXCEPT
                                      !.pc = "wait", !.conn = Len(conns) + 1])
  /\ UNCHANGED <<client, quiesced, machine, brokerVars, rd, notifyVars>>

\* subscribe up to its first await: the two guards and new Redis.
SubscribeCall ==
  /\ Len(tasks) < MaxTasks
  /\ IF client = NULL
     THEN /\ tasks' = Append(tasks, [NewTask("subscribe") EXCEPT
                                      !.res = Err("NotConnected")])
          /\ UNCHANGED <<subscriber, conns>>
     ELSE IF subscriber # NULL
     THEN /\ tasks' = Append(tasks, [NewTask("subscribe") EXCEPT
                                      !.res = Err("AlreadySubscribed")])
          /\ UNCHANGED <<subscriber, conns>>
     ELSE /\ conns' = Append(conns, NewConn(Len(tasks) + 1))
          /\ subscriber' = Len(conns) + 1
          /\ tasks' = Append(tasks, [NewTask("subscribe") EXCEPT
                                      !.pc = "wait", !.conn = Len(conns) + 1])
  /\ UNCHANGED <<client, quiesced, machine, brokerVars, rd, notifyVars>>

\* An outcome of a handler becomes the next state of call t.
Apply(t, out) ==
  /\ client' = out.life.client
  /\ subscriber' = out.life.subscriber
  /\ conns' = out.life.conns
  /\ tasks' = [tasks EXCEPT
       ![t].pc = out.pc, ![t].conn = out.conn, ![t].res = out.res,
       ![t].closes = @ + CloseRequests(out.life.conns) - CloseRequests(conns)]

\* Redis acknowledges the PSUBSCRIBE, or the command fails.
SubscribePSub(t) ==
  /\ tasks[t].op = "subscribe" /\ tasks[t].pc = "psub"
  /\ Answered(tasks[t].conn)
  /\ \E reply \in Replies(tasks[t].conn, Ok(<<>>)) :
       LET L == Replied(tasks[t].conn, reply)
       IN IF reply.ok
          THEN Apply(t, [life |-> [L EXCEPT !.conns[tasks[t].conn].psub = TRUE],
                         pc |-> "on", conn |-> 0, res |-> Ok(<<>>)])
          ELSE Apply(t, SubscribeCatch(L, reply.error))
  /\ UNCHANGED <<quiesced, machine, brokerVars, rd, notifyVars>>

\* subscribe after the PSUBSCRIBE: the 'pmessage' handler is registered on
\* this.subscriber as it is now, and subscribe returns Ok(undefined).
SubscribeOn(t) ==
  /\ tasks[t].op = "subscribe" /\ tasks[t].pc = "on"
  /\ IF subscriber = NULL THEN Apply(t, SubscribeCatch(Life, "TypeError"))
     ELSE Apply(t, [life |-> [Life EXCEPT !.conns[subscriber].handler = TRUE],
                    pc |-> "done", conn |-> 0, res |-> Ok(JUndefined)])
  /\ UNCHANGED <<quiesced, machine, brokerVars, rd, notifyVars>>

\* -------------------------------------------------------- connection events

\* Connection c emits 'ready': the once('ready') handler registered on it
\* resolves its call's promise. connect returns Ok; subscribe goes on to its
\* PSUBSCRIBE. A promise that is already settled stays as it is.
ConnReady(c) ==
  /\ conns[c].st = "connecting"
  /\ LET t == conns[c].onReady
         L == [Life EXCEPT !.conns[c].st = "ready", !.conns[c].onReady = 0]
     IN IF t = 0 \/ tasks[t].pc # "wait"
        THEN /\ conns' = L.conns
             /\ UNCHANGED <<client, subscriber, tasks, machine>>
        ELSE IF tasks[t].op = "connect"
        THEN /\ Apply(t, [life |-> L, pc |-> "done", conn |-> 0,
                          res |-> Ok(<<>>)])
             /\ machine' = "connected"
        ELSE /\ Apply(t, SubscribeReady(L))
             /\ UNCHANGED machine
  /\ UNCHANGED <<quiesced, brokerVars, rd, notifyVars>>

\* Connection c emits 'error' while its once('error') handler is registered.
\* connect's handler force-closes this.client as it is now, clears it and
\* resolves with the error; subscribe's handler rejects, which runs
\* subscribe's catch block.
ConnError(c) ==
  /\ Open(c)
  /\ conns[c].onError # 0
  /\ LET t == conns[c].onError
         L0 == [Life EXCEPT !.conns[c].onError = 0, !.conns[c].faulty = TRUE]
         waiting == tasks[t].pc = "wait"
     IN IF tasks[t].op = "connect"
        THEN LET L == IF L0.client # NULL
                      THEN [L0 EXCEPT !.conns = CloseConn(@, L0.client),
                                      !.client = NULL]
                      ELSE L0
             IN /\ Apply(t, [life |-> L,
                             pc |-> "done", conn |-> 0,
                             res |-> IF waiting THEN Err("ConnectionError")
                                     ELSE tasks[t].res])
                /\ machine' = "disconnected"
        ELSE /\ IF waiting THEN Apply(t, SubscribeCatch(L0, "ConnectionError"))
                ELSE /\ conns' = L0.conns
                     /\ UNCHANGED <<client, subscriber, tasks>>
             /\ UNCHANGED machine
  /\ UNCHANGED <<quiesced, brokerVars, rd, notifyVars>>

\* --------------------------------------------------------------- disconnect

\* disconnect's outer catch block (lines 188-199).
DisconnectCatch(L, e) ==
  LET L1 == IF L.subscriber # NULL
            THEN [L EXCEPT !.conns = CloseConn(@, L.subscriber),
                           !.subscriber = NULL]
            ELSE L
      L2 == IF L1.client # NULL
            THEN [L1 EXCEPT !.conns = CloseConn(@, L1.client), !.client = NULL]
            ELSE L1
  IN [life |-> L2, pc |-> "done", conn |-> 0, res |-> Err(e)]

\* The cleanup of the primary client up to its await (lines 180-183): QUIT
\* is sent on this.client, or disconnect returns Ok when there is none.
DisconnectClient(L) ==
  IF L.client # NULL
  THEN [life |-> [L EXCEPT !.conns = SendQuit(@, L.client)],
        pc |-> "quit", conn |-> L.client, res |-> Ok(<<>>)]
  ELSE [life |-> L, pc |-> "done", conn |-> 0, res |-> Ok(<<>>)]

\* A cleanup that leaves this.client set once QUIT on c was answered.
ClientQuitKept(L, c) ==
  [life |-> [L EXCEPT !.conns = QuitAnswered(@, c)],
   pc |-> "done", conn |-> 0, res |-> Ok(<<>>)]

\* QUIT on c was answered (lines 183-187): this.client is cleared and
\* disconnect returns Ok.
ClientQuit(L, c) ==
  [life |-> [L EXCEPT !.conns = QuitAnswered(@, c), !.client = NULL],
   pc |-> "done", conn |-> 0, res |-> Ok(<<>>)]

\* The subscriber cleanup's catch and finally (lines 172-177): the forced
\* close of this.subscriber as it is now. If it is null by now, the catch
\* block itself throws and the outer catch runs.
DisconnectSubCatch(L) ==
  IF L.subscriber = NULL THEN DisconnectCatch(L, "TypeError")
  ELSE DisconnectClient([L EXCEPT !.conns = CloseConn(@, L.subscriber),
                                  !.subscriber = NULL])

\* disconnect up to its first await: the early return, or the PUNSUBSCRIBE
\* on the subscriber, or the cleanup of the primary client.
DisconnectCall ==
  /\ Len(tasks) < MaxTasks
  /\ LET out == IF client = NULL /\ subscriber = NULL
                  THEN [life |-> Life, pc |-> "done", conn |-> 0,
                        res |-> Ok(<<>>)]
                ELSE IF subscriber # NULL
                  THEN [life |-> Life, pc |-> "punsub", conn |-> subscriber,
                        res |-> Ok(<<>>)]
                ELSE DisconnectClient(Life)
     IN /\ conns' = out.life.conns
        /\ tasks' = Append(tasks, [NewTask("disconnect") EXCEPT
             !.pc = out.pc, !.conn = out.conn,
             !.closes = CloseRequests(out.life.conns) - CloseRequests(conns)])
        /\ quiesced' = IF out.pc = "done" THEN TRUE ELSE quiesced
        /\ machine' = IF out.pc = "done" THEN "disconnected" ELSE machine
  /\ UNCHANGED <<client, subscriber, brokerVars, rd, notifyVars>>

\* A step of disconnect; when it returns, quiesced is set and the state
\* machine is back in disconnected.
DisconnectStep(t, out) ==
  /\ Apply(t, out)
  /\ quiesced' = IF out.pc = "done" THEN TRUE ELSE quiesced
  /\ machine' = IF out.pc = "done" THEN "disconnected" ELSE machine
  /\ UNCHANGED <<brokerVars, rd, notifyVars>>

\* The PUNSUBSCRIBE is answered; on success QUIT is sent on this.subscriber
\* as it is now.
DisconnectPUnsub(t) ==
  /\ tasks[t].op = "disconnect" /\ tasks[t].pc = "punsub"
  /\ Answered(tasks[t].conn)
  /\ \E reply \in Replies(tasks[t].conn, Ok(<<>>)) :
       LET L0 == Replied(tasks[t].conn, reply)
       IN IF reply.ok
          THEN LET L == [L0 EXCEPT !.conns[tasks[t].conn].psub = FALSE]
               IN IF L.subscriber = NULL
                  THEN DisconnectStep(t, DisconnectSubCatch(L))
                  ELSE DisconnectStep(t,
                         [life |-> [L EXCEPT !.conns = SendQuit(@, L.subscriber)],
                          pc |-> "subquit", conn |-> L.subscriber,
                          res |-> Ok(<<>>)])
          ELSE DisconnectStep(t, DisconnectSubCatch(L0))

\* The subscriber's QUIT is answered; this.subscriber is cleared either way.
DisconnectSubQuit(t) ==
  /\ tasks[t].op = "disconnect" /\ tasks[t].pc = "subquit"
  /\ Answered(tasks[t].conn)
  /\ \E reply \in Replies(tasks[t].conn, Ok(<<>>)) :
       LET L == Replied(tasks[t].conn, reply)
       IN IF reply.ok
          THEN DisconnectStep(t, DisconnectClient(
                 [L EXCEPT !.conns = QuitAnswered(@, tasks[t].conn),
                           !.subscriber = NULL]))
          ELSE DisconnectStep(t, DisconnectSubCatch(L))

\* The client's QUIT is answered: disconnect returns Ok, or the outer catch
\* runs.
DisconnectQuit(t) ==
  /\ tasks[t].op = "disconnect" /\ tasks[t].pc = "quit"
  /\ Answered(tasks[t].conn)
  /\ \E reply \in Replies(tasks[t].conn, Ok(<<>>)) :
       LET L == Replied(tasks[t].conn, reply)
       IN IF reply.ok THEN DisconnectStep(t, ClientQuit(L, tasks[t].conn))
          ELSE DisconnectStep(t, DisconnectCatch(L, reply.error))

\* ------------------------------------------------- a forced close that throws

\* connection.disconnect() on c throws inside a catch block (lines 191, 195,
\* 678): the statement that clears the handle is not reached, the exception
\* leaves the catch block and the call's promise rejects instead of
\* resolving with a Result. Whether the socket was closed before the
\* exception is up to the library.
ForcedCloseThrows(L, c, closed) ==
  [life |-> [L EXCEPT !.conns[c].forced = @ + 1,
                      !.conns[c].faulty = TRUE,
                      !.conns[c].st = IF closed THEN "closed" ELSE @],
   pc |-> "threw", conn |-> 0, res |-> Err("CloseError")]

\* The client's QUIT is rejected and the first forced close of disconnect's
\* outer catch block throws: that of this.subscriber when it is set, else
\* that of this.client.
DisconnectQuitThrows(t) ==
  /\ tasks[t].op = "disconnect" /\ tasks[t].pc = "quit"
  /\ Answered(tasks[t].conn)
  /\ \E reply \in Replies(tasks[t].conn, Ok(<<>>)), closed \in BOOLEAN :
       LET L == Replied(tasks[t].conn, reply)
           c == IF L.subscriber # NULL THEN L.subscriber ELSE L.client
       IN /\ ~reply.ok
          /\ c # NULL
          /\ DisconnectStep(t, ForcedCloseThrows(L, c, closed))

\* The PSUBSCRIBE is rejected and the forced close of subscribe's catch
\* block throws.
SubscribePSubThrows(t) ==
  /\ tasks[t].op = "subscribe" /\ tasks[t].pc = "psub"
  /\ Answered(tasks[t].conn)
  /\ \E reply \in Replies(tasks[t].conn, Ok(<<>>)), closed \in BOOLEAN :
       LET L == Replied(tasks[t].conn, reply)
       IN /\ ~reply.ok
          /\ L.subscriber # NULL
          /\ Apply(t, ForcedCloseThrows(L, L.subscriber, closed))
  /\ UNCHANGED <<quiesced, machine, brokerVars, rd, notifyVars>>

\* ------------------------------------------------------------ notifications

\* The keyspace notifications Redis may send for the pattern
\* __keyspace@0__:bull:* : the key written (the channel without its
\* __keyspace@0__: prefix) and the operation. They are a push on either end
\* of a wait list, a write of a job's record, a write of a queue's meta key,
\* and a write of a key that has no second part.
Notifications ==
  {[key |-> getWaitKey(Emails), message |-> "lpush"],
   [key |-> getWaitKey(Emails), message |-> "rpush"],
   [key |-> getJobKey(Emails, J1), message |-> "hset"],
   [key |-> getMetaKey(Emails), message |-> "hset"],
   [key |-> <<"bull", ":", "emails">>, message |-> "set"]}

\* The keys and operations of the notifications that the translation is
\* examined on: a queue name with and without ":", every reserved suffix,
\* job ids with and without ":", a key without a second part, and the
\* operations Redis reports for hashes, lists, sorted sets and expiry.
Nested == <<"mail", ":", "eu">>
WeirdId == <<"weird", ":", "id">>
Suffixes == {<<"meta">>, <<"wait">>, <<"active">>, <<"completed">>,
             <<"failed">>, <<"delayed">>}
Messages == {"hset", "hmset", "del", "lpush", "rpush", "lrem", "zadd", "expire"}
ParseNotifications ==
  {[key |-> <<"bull", ":">> \o queueName \o <<":">> \o tail, message |-> message] :
     queueName \in {Emails, Nested}, tail \in Suffixes \cup {J1, WeirdId},
     message \in Messages}
  \cup {[key |-> <<"bull", ":", "emails">>, message |-> "set"]}

\* The database indexes of the connections the translation is examined on.
Dbs == {Db0, <<"1", "5">>}
DigitAtoms == {"0", "1", "5"}

\* The channel of the keyspace notification for a key in database db.
Channel(db, key) == <<"__keyspace@">> \o db \o <<"__:">> \o key

\* The position of the last ":" of a string, 0 when it has none.
LastColon(str) ==
  IF \E i \in DOMAIN str : str[i] = ":"
  THEN CHOOSE i \in DOMAIN str :
         str[i] = ":" /\ \A j \in (i + 1)..Len(str) : str[j] # ":"
  ELSE 0

\* The position of the first ":" of a string, 0 when it has none.
FirstColon(str) ==
  IF \E i \in DOMAIN str : str[i] = ":"
  THEN CHOOSE i \in DOMAIN str :
         str[i] = ":" /\ \A j \in 1..(i - 1) : str[j] # ":"
  ELSE 0

\* channel.match(/^__keyspace@\d+__:bull:(.+)$/) (line 700): group 1 of
\* the match, the empty string when the channel does not match.
KeyPart(channel) ==
  LET close == IF \E i \in DOMAIN channel : channel[i] = "__:"
               THEN CHOOSE i \in DOMAIN channel :
                      channel[i] = "__:" /\ \A j \in 1..(i - 1) : channel[j] # "__:"
               ELSE 0
  IN IF /\ close >= 3
        /\ channel[1] = "__keyspace@"
        /\ \A i \in 2..(close - 1) : channel[i] \in DigitAtoms
        /\ Len(channel) >= close + 3
        /\ channel[close + 1] = "bull" /\ channel[close + 2] = ":"
     THEN SubSeq(channel, close + 3, Len(channel))
     ELSE <<>>

\* switch (message) for a job key (lines 726-737).
JobEventType(message) ==
  CASE message \in {"hset", "hmset"} -> "updated"
    [] message = "del" -> "removed"
    [] OTHER -> message

\* A translation of an index key's operation that reports the operation.
IndexEventTypeRaw(keySuffix, message) == message

\* switch (keySuffix) for an index key (lines 746-787); meta does not get
\* here.
IndexEventType(keySuffix, message) ==
  LET pushed == message \in {"lpush", "rpush"}
  IN CASE keySuffix = <<"wait">> /\ pushed -> "waiting"
       [] keySuffix = <<"wait">> /\ message = "lrem" -> "dequeued"
       [] keySuffix = <<"active">> /\ pushed -> "active"
       [] keySuffix = <<"completed">> /\ message = "zadd" -> "completed"
       [] keySuffix = <<"failed">> /\ message = "zadd" -> "failed"
       [] keySuffix = <<"delayed">> /\ message = "zadd" -> "delayed"
       [] OTHER -> message

\* parseKeyspaceEvent (lines 695-797): the event, or JNull. The event's
\* timestamp, Date.now(), is left out.
parseKeyspaceEvent(channel, message) ==
  LET keyPart == KeyPart(channel)
      colon == FirstColon(keyPart)
      queueName == SubSeq(keyPart, 1, colon - 1)
      keySuffix == SubSeq(keyPart, colon + 1, Len(keyPart))
  IN IF keyPart = <<>> \/ colon = 0 THEN JNull
     ELSE IF keySuffix \notin Suffixes
       THEN [eventType |-> JobEventType(message),
             queueName |-> queueName, jobId |-> keySuffix]
     ELSE IF keySuffix = <<"meta">> THEN JNull
     ELSE [eventType |-> IndexEventType(keySuffix, message),
           queueName |-> queueName, jobId |-> <<>>]

\* A handler that puts the event before those delivered so far.
DeliverFirst(events, n, event) == <<[n |-> n, event |-> event]>> \o events

\* callback(event) (line 666): the listener is invoked with the event of
\* the n-th notification.
Deliver(events, n, event) == Append(events, [n |-> n, event |-> event])

\* A handler out of which the listener's exception escapes: the emitter
\* loses the handler.
ListenerThrewUncaught(cs, c) == [cs EXCEPT ![c].handler = FALSE]

\* catch (error) {} (lines 668-671): the listener's exception is dropped
\* and the connections stay as they are.
ListenerThrew(cs, c) == cs

\* Redis sends a keyspace notification to a connection that holds the
\* pattern subscription: 'pmessage' is emitted, and the handler, if one is
\* registered, translates the notification and calls the listener unless
\* the translation is null; the listener returns or throws. A notification
\* records the connection that received it, whether the handler was
\* registered then (live) and whether the listener threw.
Notify(c, ntf, threw) ==
  /\ Len(notified) < MaxNotify
  /\ conns[c].st = "ready" /\ conns[c].psub
  /\ LET event == parseKeyspaceEvent(Channel(conns[c].db, ntf.key), ntf.message)
         called == conns[c].handler /\ event # JNull
     IN /\ threw => called
        /\ notified' = Append(notified, [conn |-> c, key |-> ntf.key,
                                          message |-> ntf.message,
                                          live |-> conns[c].handler,
                                          threw |-> threw])
        /\ delivered' = IF called
                        THEN Deliver(delivered, Len(notified) + 1, event)
                        ELSE delivered
        /\ conns' = IF threw THEN ListenerThrew(conns, c) ELSE conns
  /\ UNCHANGED <<client, subscriber, tasks, quiesced, machine, brokerVars, rd>>

\* ------------------------------------------------------------ specifications

Connections == \E c \in 1..Len(conns) : ConnReady(c) \/ ConnError(c)

Lifecycle ==
  \/ \E connectionString \in ConnectionStrings : ConnectCall(connectionString)
  \/ SubscribeCall
  \/ DisconnectCall
  \/ \E t \in 1..Len(tasks) :
       \/ SubscribePSub(t)
       \/ SubscribeOn(t)
       \/ DisconnectPUnsub(t)
       \/ DisconnectSubQuit(t)
       \/ DisconnectQuit(t)

Events ==
  \E c \in 1..Len(conns), ntf \in Notifications, threw \in BOOLEAN :
    Notify(c, ntf, threw)

Reads ==
  \/ \E queueName \in QueueNames, jobId \in JobIds : GetJobCall(queueName, jobId)
  \/ GetJobProbe
  \/ GetJobFetch
  \/ \E options \in GetJobsOptions : GetJobsCall(options)
  \/ GetJobsRange
  \/ GetJobsFetch
  \/ ReadReturn

Surveys ==
  \/ ListQueuesCall
  \/ ListQueuesScan
  \/ ListQueuesCounts
  \/ \E queueName \in QueueNames : GetMetricsCall(queueName)
  \/ GetMetricsSamples
  \/ GetMetricsFetch

Next == Broker \/ Connections \/ Lifecycle \/ Events \/ Reads \/ Surveys

Spec == Init /\ [][Next]_vars

\* The read operations on one adapter that connects once, beside a producing
\* application that writes to the store.
FirstConnect ==
  /\ tasks = <<>>
  /\ \E connectionString \in ConnectionStrings : ConnectCall(connectionString)

NextRead == Broker \/ FirstConnect \/ Connections \/ Reads

SpecRead == Init /\ [][NextRead]_vars

\* The lifecycle operations in every interleaving, with the notifications
\* of another application's writes.
NextLife == Connections \/ Lifecycle \/ Events

InitLife == Init /\ store = SeedMixed

\* Every operation of the adapter, the read operations with one argument
\* each, in every interleaving with the lifecycle operations.
OneOfEachRead ==
  \/ GetJobCall(Emails, J3)
  \/ GetJobProbe
  \/ GetJobFetch
  \/ GetJobsCall([queueName |-> Emails, status |-> "waiting"])
  \/ GetJobsRange
  \/ GetJobsFetch
  \/ ReadReturn

NextCalls == Connections \/ Lifecycle \/ OneOfEachRead \/ Surveys

SpecCalls == InitLife /\ [][NextCalls]_vars

SpecLife == InitLife /\ [][NextLife]_vars

\* listQueues and getMetrics, and a caller who after listQueues lists the
\* jobs of each status in turn without a limit, beside a producing
\* application that writes to the store.
InitSurvey == store \in Seeds \cup {SeedSkewed} /\ Fresh

NextSurvey ==
  \/ Broker
  \/ FirstConnect
  \/ Connections
  \/ Surveys
  \/ LET order == <<"waiting", "active", "completed", "failed", "delayed">>
         listed == Cardinality(DOMAIN rd.tally.sizes)
     IN /\ listed < Len(order)
        /\ GetJobsCall([queueName |-> Emails, status |-> order[listed + 1]])
  \/ GetJobsRange
  \/ GetJobsFetch
  \/ ReadReturn

SpecSurvey == InitSurvey /\ [][NextSurvey]_vars

\* getMetrics on the large store, which is not written.
InitHorizon == store = SeedBulk /\ Fresh

NextHorizon ==
  \/ FirstConnect
  \/ Connections
  \/ GetMetricsCall(Emails)
  \/ GetMetricsSamples
  \/ GetMetricsFetch
  \/ ReadReturn

SpecHorizon == InitHorizon /\ [][NextHorizon]_vars

\* getJob and getJobs on a store that is not written and holds one job,
\* whose record and index vary.
InitDecode ==
  /\ \E h \in DecodeHashes, status \in JobStatuses : store = SeedDecode(h, status)
  /\ Fresh

NextDecode ==
  \/ FirstConnect
  \/ Connections
  \/ GetJobCall(Emails, J1)
  \/ GetJobProbe
  \/ GetJobFetch
  \/ \E status \in JobStatuses :
       GetJobsCall([queueName |-> Emails, status |-> status])
  \/ GetJobsRange
  \/ GetJobsFetch
  \/ ReadReturn

SpecDecode == InitDecode /\ [][NextDecode]_vars

\* The lifecycle with the scheduling the runtime guarantees: the
\* continuation of an await whose promise has settled runs (subscribe goes
\* on to register its handler). Whether and when a connection emits
\* 'ready' or 'error', and when Redis answers, is up to the connection:
\* connect and subscribe set no timer of their own (lines 116-135, 640-648).
SpecLifeFair ==
  /\ InitLife /\ [][NextLife]_vars
  /\ WF_vars(\E t \in 1..Len(tasks) : SubscribeOn(t))

\* The same with connections that do report: each connection that is
\* connecting emits 'ready' or 'error'.
SpecLifeReporting == SpecLifeFair /\ WF_vars(Connections)

\* The lifecycle with a broker that answers: a connection that is
\* connecting becomes ready unless it fails first, and a command sent on a
\* connection that is ready or closed is answered or rejected.
SpecLifeAnswering ==
  /\ SpecLifeFair
  /\ WF_vars(\E c \in 1..Len(conns) : ConnReady(c))
  /\ WF_vars(\E t \in 1..Len(tasks) : SubscribePSub(t))
  /\ WF_vars(\E t \in 1..Len(tasks) :
               DisconnectPUnsub(t) \/ DisconnectSubQuit(t) \/ DisconnectQuit(t))

\* The lifecycle on connections whose forced close may throw.
NextForced ==
  \/ NextLife
  \/ \E t \in 1..Len(tasks) : DisconnectQuitThrows(t) \/ SubscribePSubThrows(t)

SpecForced == InitLife /\ [][NextForced]_vars

\* The translation of notifications: the adapter after connect and
\* subscribe have returned Ok on a connection string that names database
\* db, receiving the notifications of ParseNotifications.
Subscribed(db) ==
  /\ client = 1
  /\ subscriber = 2
  /\ conns =
       <<[NewConn(1) EXCEPT !.st = "ready", !.onReady = 0, !.db = db],
         [NewConn(2) EXCEPT !.st = "ready", !.onReady = 0, !.db = db,
                            !.psub = TRUE, !.handler = TRUE]>>
  /\ tasks =
       <<[op |-> "connect", pc |-> "done", conn |-> 0, res |-> Ok(<<>>),
          alone |-> TRUE, was |-> "disconnected", pending |-> FALSE,
          closes |-> 0, connected |-> FALSE, subscribed |-> FALSE,
          beside |-> {}],
         [op |-> "subscribe", pc |-> "done", conn |-> 0,
          res |-> Ok(JUndefined), alone |-> TRUE, was |-> "connected",
          pending |-> FALSE, closes |-> 0, connected |-> TRUE,
          subscribed |-> FALSE, beside |-> {}]>>
  /\ machine = "connected"
  /\ quiesced = FALSE
  /\ brokerOps = 0
  /\ rd = Idle
  /\ notified = <<>>
  /\ delivered = <<>>

InitParse == store = EmptyStore /\ \E db \in Dbs : Subscribed(db)

NextParse == \E ntf \in ParseNotifications : Notify(subscriber, ntf, FALSE)

SpecParse == InitParse /\ [][NextParse]_vars

\* listQueues on a store that is not written: an empty store, and a store
\* of three queues (one of them with ':' in its name) and a key that the
\* pattern of the SCAN matches but that names no queue, read by SCANs that
\* may return a key more than once.
Mail == <<"mail">>

SeedQueues ==
  LET meta == HashVal([NoHash EXCEPT !.opts = JsonText([maxLenEvents |-> 10000])])
      s1 == Put(SeedLists, getMetaKey(Mail), meta)
      s2 == Put(s1, getMetaKey(Nested), meta)
  IN Put(s2, <<"bull", ":", ":", "meta">>, meta)

InitDiscover == store \in {EmptyStore, SeedQueues} /\ Fresh

NextDiscover ==
  \/ FirstConnect
  \/ Connections
  \/ ListQueuesCall
  \/ ListQueuesScan
  \/ ListQueuesScanRepeats
  \/ ListQueuesCounts
  \/ ReadReturn

SpecDiscover == InitDiscover /\ [][NextDiscover]_vars

\* The same with a broker that answers: a connection that is connecting
\* becomes ready unless it fails, and a command sent on a connection that
\* is ready or closed is answered or rejected.
SpecDiscoverFair ==
  /\ SpecDiscover
  /\ WF_vars(\E c \in 1..Len(conns) : ConnReady(c))
  /\ WF_vars(ListQueuesScan)
  /\ WF_vars(ListQueuesCounts)

\* The key layout as a producing application uses it: it computes the key
\* of a queue's index or of a job's record with the key functions and
\* writes to it. For the properties the store holds, at each key, the
\* (queue, kind, suffix or id) arguments the key was computed from.
MaxKeyWrites == 2

\* Queue names, one of them with ':' and one a prefix of it; job ids, one of
\* them with ':' and one that reads like an index name.
KeyQueues == {Emails, Nested, Mail}
KeyIds == {J1, WeirdId, <<"eu", ":", "j1">>, <<"wait">>}

\* The key function of an index suffix.
IndexKeyOfSuffix(queueName, suffix) ==
  CASE suffix = <<"meta">> -> getMetaKey(queueName)
    [] suffix = <<"wait">> -> getWaitKey(queueName)
    [] suffix = <<"active">> -> getActiveKey(queueName)
    [] suffix = <<"completed">> -> getCompletedKey(queueName)
    [] suffix = <<"failed">> -> getFailedKey(queueName)
    [] suffix = <<"delayed">> -> getDelayedKey(queueName)

KeyArgs ==
  [queueName : KeyQueues, kind : {"index"}, tail : Suffixes]
  \cup [queueName : KeyQueues, kind : {"job"}, tail : KeyIds]

KeyOf(a) ==
  IF a.kind = "job" THEN getJobKey(a.queueName, a.tail)
  ELSE IndexKeyOfSuffix(a.queueName, a.tail)

OwnersVal(owners) == [t |-> "owners", v |-> owners]

KeyWrite(a) ==
  /\ brokerOps < MaxKeyWrites
  /\ brokerOps' = brokerOps + 1
  /\ LET val == KeyValue(store, KeyOf(a))
     IN store' = Put(store, KeyOf(a),
                     OwnersVal(IF val.t = "owners" THEN val.v \cup {a} ELSE {a}))
  /\ UNCHANGED <<lifeVars, rd, notifyVars>>

InitKeys == store = EmptyStore /\ Fresh

NextKeys == \E a \in KeyArgs : KeyWrite(a)

SpecKeys == InitKeys /\ [][NextKeys]_vars

\* ------------------------------------------------- what the properties use

\* The order of the statuses in the specification's status resolution.
StatusOrder == <<"waiting", "active", "completed", "failed", "delayed">>

\* The index of a status holds the job id.
Holds(s, queueName, status, jobId) ==
  LET val == KeyValue(s, IndexKey(queueName, status))
  IN CASE val.t = "list" -> jobId \in {val.v[i] : i \in DOMAIN val.v}
       [] val.t = "zset" -> jobId \in {val.v[i][1] : i \in DOMAIN val.v}
       [] OTHER -> FALSE

\* The positions in StatusOrder of the indexes that hold the job id.
Holding(s, queueName, jobId) ==
  {i \in DOMAIN StatusOrder : Holds(s, queueName, StatusOrder[i], jobId)}

\* The first of them.
FirstHolding(s, queueName, jobId) ==
  CHOOSE i \in Holding(s, queueName, jobId) :
    \A j \in Holding(s, queueName, jobId) : i <= j

\* The job's record: the hash at its key, the empty hash when there is none.
RecordOf(s, queueName, jobId) ==
  LET val == KeyValue(s, getJobKey(queueName, jobId))
  IN IF val.t = "hash" THEN val.v ELSE NoHash

\* Every JSON field of the record that is set holds a JSON text.
Decodes(h) ==
  \A f \in {h.data, h.opts, h.stacktrace, h.returnvalue} :
    f.t \in {"absent", "json", "digits"}

\* The probes of the first k indexes of StatusOrder, as commands.
ProbesUpTo(queueName, k) ==
  [i \in 1..k |->
     <<IF StatusOrder[i] \in {"waiting", "active"} THEN "lpos" ELSE "zscore",
       IndexKey(queueName, StatusOrder[i])>>]

\* A read call whose every command was answered by a store that was not
\* written since the call began, on an adapter that was connected.
Undisturbed(r) == r.connected /\ ~r.failed /\ ~r.mutated

GetJobDone == rd.op = "getJob" /\ rd.pc = "done"

\* ------------------------------------------------------ properties of getJob

\* C1 as the specification states it: when some index holds the job id and
\* the job's record is not empty, getJob returns Ok with the status of the
\* first index of waiting, active, completed, failed, delayed that holds the
\* id, having probed the indexes up to that one and no later one.
C1_StatusOfFirstIndex ==
  LET q == rd.args.queueName
      id == rd.args.jobId
      k == FirstHolding(store, q, id)
  IN (GetJobDone /\ Undisturbed(rd) /\ Holding(store, q, id) # {}
        /\ RecordOf(store, q, id) # NoHash)
     => /\ rd.res.ok
        /\ rd.res.value.status = StatusOrder[k]
        /\ rd.cmds = ProbesUpTo(q, k) \o <<<<"hgetall", getJobKey(q, id)>>>>

\* C1, amended: the same for every record whose JSON fields decode; for a
\* record with a field that does not, getJob returns the SyntaxError after
\* the same commands. In either case, and while the call is in flight, no
\* index after the first one that holds the id is probed.
C1_StatusOfFirstIndexDecoded ==
  LET q == rd.args.queueName
      id == rd.args.jobId
      k == FirstHolding(store, q, id)
      h == RecordOf(store, q, id)
  IN (rd.op = "getJob" /\ ~rd.mutated /\ Holding(store, q, id) # {})
     => /\ \A i \in DOMAIN rd.cmds :
             rd.cmds[i][1] = "hgetall" \/ (i <= k /\ rd.cmds[i] = ProbesUpTo(q, k)[i])
        /\ (rd.pc = "done" /\ Undisturbed(rd) /\ h # NoHash)
           => /\ rd.cmds = ProbesUpTo(q, k) \o <<<<"hgetall", getJobKey(q, id)>>>>
              /\ IF Decodes(h)
                 THEN rd.res.ok /\ rd.res.value.status = StatusOrder[k]
                                /\ rd.res.value.id = id
                 ELSE rd.res = Err("SyntaxError")

\* getJob has returned the status of the second index for an id that the
\* second and the third index hold.
C1_Witness ==
  /\ GetJobDone /\ Undisturbed(rd)
  /\ Holding(store, rd.args.queueName, rd.args.jobId) = {2, 3}
  /\ rd.res.ok /\ rd.res.value.status = "active"
  /\ Len(rd.cmds) = 3

\* C2: on a connected adapter and a store that is not written during the
\* call, getJob returns the not-found error in exactly two cases: no index
\* holds the id, and then all five indexes were probed and the record was
\* not read; or some index holds it and its record is empty.
C2_NotFoundCases ==
  LET q == rd.args.queueName
      id == rd.args.jobId
      none == Holding(store, q, id) = {}
      notFound == rd.res = Err("NotFound")
  IN (GetJobDone /\ ~rd.mutated)
     => /\ notFound => (none \/ RecordOf(store, q, id) = NoHash)
        /\ Undisturbed(rd)
           => /\ (none \/ RecordOf(store, q, id) = NoHash) => notFound
              /\ none => rd.cmds = ProbesUpTo(q, Len(StatusOrder))
              /\ ~none => rd.cmds[Len(rd.cmds)] = <<"hgetall", getJobKey(q, id)>>

\* getJob has returned the not-found error for an id that some index holds
\* and whose record is gone.
C2_Witness ==
  /\ GetJobDone /\ Undisturbed(rd)
  /\ rd.res = Err("NotFound")
  /\ Holding(store, rd.args.queueName, rd.args.jobId) # {}
  /\ Len(rd.cmds) > 1

\* getJob has returned the not-found error for an id that no index holds.
C2_WitnessNoIndex ==
  /\ GetJobDone /\ Undisturbed(rd)
  /\ rd.res = Err("NotFound")
  /\ Holding(store, rd.args.queueName, rd.args.jobId) = {}
  /\ Len(rd.cmds) = 5

\* ----------------------------------------------------- properties of getJobs

\* The offset and the limit of a call, with the specification's defaults.
OffsetAsked(options) ==
  IF "offset" \in DOMAIN options THEN options.offset ELSE 0
LimitAsked(options) ==
  IF "limit" \in DOMAIN options THEN options.limit ELSE 100

KnownStatus(status) == \E i \in DOMAIN StatusOrder : StatusOrder[i] = status

\* The entries of an index, each with the number of entries that come before
\* it in the order of its status: the list order for waiting and active,
\* descending score for completed and failed, ascending score for delayed.
Ranked(s, queueName, status) ==
  LET val == KeyValue(s, IndexKey(queueName, status))
      pairs == IF val.t = "zset" THEN {val.v[i] : i \in DOMAIN val.v} ELSE {}
      before(p, q) == IF status = "delayed" THEN ZLess(p, q) ELSE ZLess(q, p)
  IN IF status \in {"waiting", "active"}
     THEN IF val.t = "list" THEN {<<val.v[i], i - 1>> : i \in DOMAIN val.v}
          ELSE {}
     ELSE {<<q[1], Cardinality({p \in pairs : before(p, q)})>> : q \in pairs}

\* ids are the entries at positions offset .. offset + limit - 1.
IsPage(ids, s, queueName, status, offset, limit) ==
  LET ranked == Ranked(s, queueName, status)
      inRange == {e \in ranked : offset <= e[2] /\ e[2] <= offset + limit - 1}
  IN /\ Len(ids) = Cardinality(inRange)
     /\ \A i \in DOMAIN ids : <<ids[i], offset + i - 1>> \in ranked

\* The elements of seq at the positions in keep, in order.
RECURSIVE Selected(_, _, _)
Selected(seq, keep, i) ==
  IF i > Len(seq) THEN <<>>
  ELSE (IF i \in keep THEN <<seq[i]>> ELSE <<>>) \o Selected(seq, keep, i + 1)

GetJobsDone == rd.op = "getJobs" /\ rd.pc = "done"

\* getJobs' range read was answered with ids.
RangeAnswered ==
  rd.op = "getJobs" /\ (rd.pc = "fetch" \/ (rd.pc = "done" /\ rd.res.ok))

Recorded(s, queueName, ids) ==
  {i \in DOMAIN ids : RecordOf(s, queueName, ids[i]) # NoHash}

\* C7 as the specification states it: when ids of the page have no record,
\* getJobs still returns Ok, omits exactly those ids, and keeps the other
\* jobs in the order of the page.
C7_TombstonesOmitted ==
  (GetJobsDone /\ Undisturbed(rd) /\ KnownStatus(rd.args.status))
  => /\ rd.res.ok
     /\ JobIdsOf(rd.res.value) =
          Selected(rd.jobIds, Recorded(store, rd.args.queueName, rd.jobIds), 1)

\* C7, amended: getJobs returns Ok and omits exactly the ids whose
\* fetchJobData did not return a job: those without a record, those whose
\* record has a JSON field that does not decode, and those whose HGETALL was
\* rejected or not sent; the other jobs keep the order of the page.
C7_UnfetchedOmitted ==
  LET q == rd.args.queueName
      fetched == {i \in Recorded(store, q, rd.jobIds) \ rd.lost :
                    Decodes(RecordOf(store, q, rd.jobIds[i]))}
  IN (GetJobsDone /\ rd.connected /\ ~rd.mutated /\ KnownStatus(rd.args.status)
        /\ (rd.res.ok \/ ~rd.failed))
     => /\ rd.res.ok
        /\ JobIdsOf(rd.res.value) = Selected(rd.jobIds, fetched, 1)

\* getJobs has returned the first and the third job of a page of three
\* whose second id has no record.
C7_Witness ==
  /\ GetJobsDone /\ Undisturbed(rd)
  /\ Len(rd.jobIds) = 3
  /\ Recorded(store, rd.args.queueName, rd.jobIds) = {1, 3}
  /\ rd.res.ok
  /\ JobIdsOf(rd.res.value) = <<rd.jobIds[1], rd.jobIds[3]>>

\* C8: on a connected adapter, getJobs with a status that is none of the
\* five (among them "paused") returns the unknown-status error and sends no
\* command.
C8_UnknownStatusRejected ==
  (rd.op = "getJobs" /\ rd.connected /\ ~KnownStatus(rd.args.status))
  => /\ rd.pc = "done"
     /\ rd.res = Err("UnknownStatus")
     /\ rd.cmds = <<>>

\* getJobs was called with the status "paused" on a connected adapter.
C8_Witness ==
  /\ GetJobsDone /\ rd.connected
  /\ rd.args.status = "paused"
  /\ ~rd.res.ok

\* C9 as the specification states it: getJobs with limit 0 and getJobs with
\* limit 101 are rejected: the call returns an error, not a list of jobs.
C9_LimitOutOfRangeRejected ==
  (GetJobsDone /\ Undisturbed(rd) /\ KnownStatus(rd.args.status)
     /\ LimitAsked(rd.args) \in {0, 101})
  => ~rd.res.ok

\* ------------------------------------------ getJobs and getJob, one by one

\* getJob was called for a job of the page that the getJobs call before it
\* returned.
GetJobOfListed ==
  /\ GetJobDone /\ Undisturbed(rd)
  /\ rd.listed.status # "none"
  /\ rd.listed.queueName = rd.args.queueName
  /\ \E i \in DOMAIN rd.listed.ids : rd.listed.ids[i] = rd.args.jobId

\* C10 as the specification states it: on a store that is not written
\* between and during the two calls, getJob returns, for every job that
\* getJobs returned for a status, Ok with that status.
C10_ListedStatusAgrees ==
  GetJobOfListed
  => rd.res.ok /\ rd.res.value.status = rd.listed.status

\* C10, amended: it does so for every returned job whose id no index before
\* that of the status holds; for the others getJob returns Ok with the
\* status of the first index that holds the id.
C10_ListedStatusAgreesIfFirst ==
  LET first == FirstHolding(store, rd.args.queueName, rd.args.jobId)
  IN GetJobOfListed
     => /\ Holds(store, rd.args.queueName, rd.listed.status, rd.args.jobId)
        /\ rd.res.ok
        /\ rd.res.value.status = StatusOrder[first]
        /\ StatusOrder[first] = rd.listed.status
           => rd.res.value.status = rd.listed.status

\* getJob has returned the status completed for a job that getJobs listed
\* as completed.
C10_Witness ==
  /\ GetJobOfListed
  /\ rd.listed.status = "completed"
  /\ rd.res.ok /\ rd.res.value.status = "completed"

\* ------------------------------------------------ properties of the lifecycle

ReadOps == {"listQueues", "getJobs", "getJob", "getMetrics"}

\* C3 as the specification states it: a call of listQueues, getJobs, getJob,
\* getMetrics or subscribe that is made while the state machine is in
\* disconnected (no connect has succeeded yet, the last one failed, or
\* disconnect has returned) returns the not-connected error and sends no
\* command.
C3_NotConnected ==
  /\ (rd.op \in ReadOps /\ rd.was = "disconnected")
     => rd.pc = "done" /\ rd.res = Err("NotConnected") /\ rd.cmds = <<>>
  /\ \A t \in 1..Len(tasks) :
       (tasks[t].op = "subscribe" /\ tasks[t].was = "disconnected")
       => tasks[t].pc = "done" /\ tasks[t].res = Err("NotConnected")

\* The same for the calls made while no connect call is in flight.
C3_NotConnectedUnlessConnecting ==
  /\ (rd.op \in ReadOps /\ rd.was = "disconnected" /\ ~rd.pending)
     => rd.pc = "done" /\ rd.res = Err("NotConnected") /\ rd.cmds = <<>>
  /\ \A t \in 1..Len(tasks) :
       (tasks[t].op = "subscribe" /\ tasks[t].was = "disconnected"
          /\ ~tasks[t].pending)
       => tasks[t].pc = "done" /\ tasks[t].res = Err("NotConnected")

\* The connections were not reported to fail.
Healthy == \A c \in 1..Len(conns) : ~conns[c].faulty

\* Every lifecycle call was made after the calls before it had returned.
OneByOne == \A t \in 1..Len(tasks) : tasks[t].alone

AllReturned == \A t \in 1..Len(tasks) : tasks[t].pc = "done"

\* C4: on connections that do not fail, connect; disconnect; disconnect,
\* called one by one with a well-formed connection string, return Ok, Ok,
\* Ok with exactly one QUIT and no forced close on the command connection;
\* and in any history of calls made one by one, a disconnect called in the
\* state disconnected returns Ok at once and makes no close request.
C4_DisconnectIdempotent ==
  /\ (/\ Len(tasks) = 3
      /\ tasks[1].op = "connect" /\ tasks[1].res # Err("InvalidFormat")
      /\ tasks[2].op = "disconnect" /\ tasks[3].op = "disconnect"
      /\ OneByOne /\ AllReturned /\ Healthy)
     => /\ \A t \in 1..3 : tasks[t].res.ok
        /\ Len(conns) = 1
        /\ conns[1].quits = 1 /\ conns[1].forced = 0
        /\ conns[1].st = "closed"
        /\ tasks[2].closes = 1 /\ tasks[3].closes = 0
  /\ (OneByOne /\ Healthy)
     => \A t \in 1..Len(tasks) :
          (tasks[t].op = "disconnect" /\ tasks[t].was = "disconnected")
          => tasks[t].pc = "done" /\ tasks[t].res.ok /\ tasks[t].closes = 0

\* connect, disconnect and disconnect were called one by one and each has
\* returned Ok, with one QUIT sent.
C4_Witness ==
  /\ Len(tasks) = 3
  /\ tasks[1].op = "connect"
  /\ tasks[2].op = "disconnect" /\ tasks[3].op = "disconnect"
  /\ OneByOne /\ AllReturned /\ Healthy
  /\ \A t \in 1..3 : tasks[t].res.ok
  /\ conns[1].quits = 1 /\ tasks[3].closes = 0

\* C5 as the specification states it: once a disconnect call has returned,
\* and until connect is called again, no connection that the adapter created
\* is open, so that no notification reaches the listener.
C5_ReleasedAfterDisconnect ==
  quiesced => \A c \in 1..Len(conns) : ~Open(c)

\* The same in the histories of calls made one by one.
C5_ReleasedOneByOne ==
  (quiesced /\ OneByOne /\ AllReturned)
  => \A c \in 1..Len(conns) : ~Open(c)

\* --------------------------------------- properties of listQueues and getJobs

\* The caller has listed the jobs of all five statuses since listQueues
\* returned, every command of these calls was answered, and the store was
\* not written since listQueues was called.
AllListed ==
  /\ rd.pc = "done" /\ DOMAIN rd.tally.sizes = JobStatuses
  /\ rd.connected /\ ~rd.failed /\ ~rd.mutated

\* The sizes of the five lists add up to the five counts of every queue
\* that listQueues returned.
SizesAgree ==
  LET sizes == rd.tally.sizes
  IN \A i \in DOMAIN rd.tally.queues :
       LET queue == rd.tally.queues[i]
       IN sizes["waiting"] + sizes["active"] + sizes["completed"]
            + sizes["failed"] + sizes["delayed"]
          = queue.waiting + queue.active + queue.completed + queue.failed
            + queue.delayed

\* Every id that an index of the queue holds has a record whose JSON fields
\* decode.
AllRecorded(s, queueName) ==
  \A jobId \in JobIds :
    Holding(s, queueName, jobId) # {}
    => /\ RecordOf(s, queueName, jobId) # NoHash
       /\ Decodes(RecordOf(s, queueName, jobId))

ListQueuesDone == rd.op = "listQueues" /\ rd.pc = "done"

\* C12: a listQueues call of which a SCAN or a count command was rejected,
\* or which found this.client cleared, returns Err, and an Err carries no
\* queue; a call that returns Ok sent the five count commands of every
\* queue it returns, and returns each queue with its five counts, which on
\* a store that was not written are the sizes of the five indexes.
C12_AllOrNothing ==
  ListQueuesDone
  => /\ rd.failed => ~rd.res.ok
     /\ ~rd.res.ok => DOMAIN rd.res = {"ok", "error"}
     /\ rd.res.ok
        => /\ \E scans \in 1..Len(rd.cmds) :
                /\ \A i \in 1..scans : rd.cmds[i][1] = "scan"
                /\ Len(rd.cmds) = scans + 5 * Len(rd.res.value)
                /\ \A i \in DOMAIN rd.res.value :
                     SubSeq(rd.cmds, scans + 5 * i - 4, scans + 5 * i)
                       = CountCmds(rd.res.value[i].name)
           /\ \A i \in DOMAIN rd.res.value :
                LET queue == rd.res.value[i]
                    size(status) ==
                      Cardinality(Ranked(store, queue.name, status))
                IN /\ DOMAIN queue = {"name", "waiting", "active", "completed",
                                      "failed", "delayed", "connection"}
                   /\ ~rd.mutated
                      => /\ queue.waiting = size("waiting")
                         /\ queue.active = size("active")
                         /\ queue.completed = size("completed")
                         /\ queue.failed = size("failed")
                         /\ queue.delayed = size("delayed")

\* listQueues has returned Err after the count commands of a queue that its
\* scan had found were rejected.
C12_Witness ==
  /\ ListQueuesDone /\ rd.connected /\ rd.failed
  /\ ~rd.res.ok
  /\ Len(rd.work.metaKeys) = 1
  /\ Len(rd.cmds) = 6

\* ---------------------------------------------------- properties of getMetrics

GetMetricsDone == rd.op = "getMetrics" /\ rd.pc = "done"

\* The members of the completed or failed set of a queue, with their
\* scores, that are among the 100 of the highest rank.
Sampled(s, queueName, status) ==
  LET val == KeyValue(s, IndexKey(queueName, status))
      pairs == IF val.t = "zset" THEN {val.v[i] : i \in DOMAIN val.v} ELSE {}
  IN {p \in pairs : Cardinality({q \in pairs : ZLess(p, q)}) < 100}

\* The number of them whose score is at least t.
Since(s, queueName, status, t) ==
  Cardinality({p \in Sampled(s, queueName, status) : p[2] >= t})

\* C13: a getMetrics call that returns Ok on a store that was not written
\* during the call returns as throughput the number of sampled members of
\* the completed set plus the number of sampled members of the failed set
\* whose score is at least now - 3600000, now being what Date.now()
\* returned during the call: a member with exactly that score is counted,
\* one with a score less by one is not.
C13_ThroughputOfLastHour ==
  (GetMetricsDone /\ rd.res.ok /\ ~rd.mutated)
  => rd.res.value.throughput =
       Since(store, rd.args.queueName, "completed", rd.work.now - 3600000)
       + Since(store, rd.args.queueName, "failed", rd.work.now - 3600000)

\* getMetrics has counted, beside a newer member, a member of the completed
\* set whose score is exactly one hour before now.
C13_Witness ==
  /\ GetMetricsDone /\ rd.res.ok /\ ~rd.mutated
  /\ \E p \in Sampled(store, rd.args.queueName, "completed") :
       p[2] = rd.work.now - 3600000
  /\ Cardinality(Sampled(store, rd.args.queueName, "completed")) = 2
  /\ Sampled(store, rd.args.queueName, "failed") = {}
  /\ rd.res.value.throughput = 2

\* getMetrics has left out a member of the completed set whose score is
\* one millisecond more than one hour before now.
C13_WitnessJustOutside ==
  /\ GetMetricsDone /\ rd.res.ok /\ ~rd.mutated
  /\ \E p \in Sampled(store, rd.args.queueName, "completed") :
       p[2] = rd.work.now - 3600001
  /\ Cardinality(Sampled(store, rd.args.queueName, "completed")) = 2
  /\ Sampled(store, rd.args.queueName, "failed") = {}
  /\ rd.res.value.throughput = 1

\* A number that is not negative; NaN is none.
NonNegative(x) ==
  CASE x.k = "number" -> x.n >= 0
    [] x.k = "fraction" -> x.num >= 0 /\ x.den > 0
    [] OTHER -> FALSE

\* C14 as the specification states it: whatever the completed set, the
\* failed set and the records hold, a getMetrics call that returns Ok
\* returns a failureRate that is the size of the failed sample divided by
\* the size of both samples, or 0 when both are empty, and so in [0,1]; a
\* throughput that is not negative; and an avgProcessingTime that is not
\* negative.
C14_MetricsInRange ==
  LET completed == Cardinality(Sampled(store, rd.args.queueName, "completed"))
      failed == Cardinality(Sampled(store, rd.args.queueName, "failed"))
      metrics == rd.res.value
  IN (GetMetricsDone /\ rd.res.ok)
     => /\ ~rd.mutated
           => metrics.failureRate =
                IF completed + failed = 0 THEN JNumber(0)
                ELSE Fraction(failed, completed + failed)
        /\ NonNegative(metrics.failureRate)
        /\ metrics.failureRate.k = "fraction"
           => metrics.failureRate.num <= metrics.failureRate.den
        /\ metrics.throughput >= 0
        /\ NonNegative(metrics.avgProcessingTime)

\* The completed members sampled whose record is not empty and has both
\* processedOn and finishedOn; with decoded, those of them whose JSON fields
\* decode.
Timed(s, queueName, decoded) ==
  {p[1] : p \in
     {p \in Sampled(s, queueName, "completed") :
        LET h == RecordOf(s, queueName, p[1])
        IN /\ h # NoHash
           /\ Truthy(h.processedOn) /\ Truthy(h.finishedOn)
           /\ decoded => Decodes(h)}}

\* The sum of finishedOn - processedOn over the records of ids.
RECURSIVE TotalTime(_, _, _)
TotalTime(s, queueName, ids) ==
  IF ids = {} THEN 0
  ELSE LET id == CHOOSE x \in ids : TRUE
           h == RecordOf(s, queueName, id)
       IN h.finishedOn.n - h.processedOn.n
          + TotalTime(s, queueName, ids \ {id})

\* Their mean, 0 for no id.
MeanTime(s, queueName, ids) ==
  IF ids = {} THEN JNumber(0)
  ELSE Fraction(TotalTime(s, queueName, ids), Cardinality(ids))

\* C15 as the specification states it: a getMetrics call whose commands
\* were all answered, on a store that was not written during the call,
\* returns Ok with, as avgProcessingTime, the mean of finishedOn -
\* processedOn over the sampled completed ids whose record is not empty and
\* has both fields, 0 when there is none; it reads the record of each
\* sampled completed id and of no member of the failed set.
C15_MeanOfTimed ==
  LET q == rd.args.queueName
  IN (GetMetricsDone /\ Undisturbed(rd))
     => /\ rd.res.ok
        /\ rd.res.value.avgProcessingTime = MeanTime(store, q, Timed(store, q, FALSE))
        /\ {rd.cmds[i][2] : i \in 3..Len(rd.cmds)}
             = {getJobKey(q, p[1]) : p \in Sampled(store, q, "completed")}

\* C15, amended: the mean is taken over those of these ids whose record has
\* JSON fields that all decode; a record with a field that does not is
\* skipped like a missing one.
C15_MeanOfFetched ==
  LET q == rd.args.queueName
  IN (GetMetricsDone /\ Undisturbed(rd))
     => /\ rd.res.ok
        /\ rd.res.value.avgProcessingTime = MeanTime(store, q, Timed(store, q, TRUE))
        /\ {rd.cmds[i][2] : i \in 3..Len(rd.cmds)}
             = {getJobKey(q, p[1]) : p \in Sampled(store, q, "completed")}

\* getMetrics has returned the processing time of the one completed job
\* that has both timestamps, having skipped a completed job without a
\* record.
C15_Witness ==
  LET q == rd.args.queueName
  IN /\ GetMetricsDone /\ Undisturbed(rd)
     /\ Cardinality(Sampled(store, q, "completed")) = 2
     /\ \E p \in Sampled(store, q, "completed") : RecordOf(store, q, p[1]) = NoHash
     /\ rd.res.ok
     /\ rd.res.value.avgProcessingTime = Fraction(300, 1)

\* getMetrics has returned the mean over the completed jobs alone on a
\* store whose failed set holds a job with both timestamps.
C15_WitnessFailedLeftOut ==
  LET q == rd.args.queueName
  IN /\ GetMetricsDone /\ Undisturbed(rd)
     /\ \E p \in Sampled(store, q, "failed") :
          /\ RecordOf(store, q, p[1]) = HashFinished
          /\ p[1] \notin {c[1] : c \in Sampled(store, q, "completed")}
     /\ Cardinality(Timed(store, q, TRUE)) = 1
     /\ rd.res.ok
     /\ rd.res.value.avgProcessingTime.den = 1

\* C16: getMetrics reads positions 0 to 99 of the completed set and of the
\* failed set in descending order of score, and after that only records of
\* completed members among these 100. The metrics of a call that returns Ok
\* are those of the 100 members of the highest score of either set: the
\* throughput counts no other member and is at most 200, the failureRate is
\* taken over these members, and, when every command was answered, the
\* avgProcessingTime is the mean over the records of these completed
\* members.
C16_SamplingHorizon ==
  LET q == rd.args.queueName
      completed == Sampled(store, q, "completed")
      failed == Sampled(store, q, "failed")
      metrics == rd.res.value
  IN (rd.op = "getMetrics" /\ rd.connected /\ ~rd.mutated)
     => /\ Len(rd.cmds) >= 2
        /\ rd.cmds[1] = <<"zrevrange", getCompletedKey(q), 0, 99, "WITHSCORES">>
        /\ rd.cmds[2] = <<"zrevrange", getFailedKey(q), 0, 99, "WITHSCORES">>
        /\ \A i \in 3..Len(rd.cmds) :
             /\ rd.cmds[i][1] = "hgetall"
             /\ rd.cmds[i][2] \in {getJobKey(q, p[1]) : p \in completed}
        /\ (rd.pc = "done" /\ rd.res.ok)
           => /\ metrics.throughput <= 200
              /\ metrics.throughput =
                   Cardinality({p \in completed : p[2] >= rd.work.now - 3600000})
                   + Cardinality({p \in failed : p[2] >= rd.work.now - 3600000})
              /\ metrics.failureRate =
                   IF Cardinality(completed) + Cardinality(failed) = 0
                   THEN JNumber(0)
                   ELSE Fraction(Cardinality(failed),
                                 Cardinality(completed) + Cardinality(failed))
              /\ ~rd.failed
                 => metrics.avgProcessingTime
                      = MeanTime(store, q, Timed(store, q, TRUE))

\* getMetrics has returned a throughput of 200, and the processing time of
\* one job, on a store where 101 completed and 101 failed jobs terminated
\* in the last hour and where the completed job of the least score has a
\* record with both timestamps.
C16_Witness ==
  LET q == rd.args.queueName
      val == KeyValue(store, getCompletedKey(q))
  IN /\ GetMetricsDone /\ Undisturbed(rd)
     /\ val.t = "zset" /\ Len(val.v) = 101
     /\ Len(KeyValue(store, getFailedKey(q)).v) = 101
     /\ val.v[1][2] >= rd.work.now - 3600000
     /\ Truthy(RecordOf(store, q, val.v[1][1]).finishedOn)
     /\ rd.res.ok
     /\ rd.res.value.throughput = 200
     /\ rd.res.value.avgProcessingTime = Fraction(300, 1)

\* ---------------------------------------------------- properties of subscribe

\* The connections that subscribe calls created.
SubscriberConns ==
  {c \in 1..Len(conns) : tasks[conns[c].by].op = "subscribe"}

\* Subscribe calls that were made while this.subscriber was set returned
\* the already-subscribed error at once, created no connection and made no
\* close request; and at most one connection that a subscribe call created
\* is open.
OneSubscriber ==
  /\ \A t \in 1..Len(tasks) :
       (tasks[t].op = "subscribe" /\ tasks[t].subscribed)
       => /\ tasks[t].pc = "done"
          /\ tasks[t].res = Err("AlreadySubscribed")
          /\ tasks[t].closes = 0
          /\ \A c \in 1..Len(conns) : conns[c].by # t
  /\ Cardinality({c \in SubscriberConns : Open(c)}) <= 1

\* A subscribe call made while this.subscriber is set.
SubscribeAgain ==
  /\ subscriber # NULL
  /\ Len(tasks') = Len(tasks) + 1
  /\ tasks'[Len(tasks')].op = "subscribe"

\* C17 as the specification states it: every subscribe call that is made
\* while this.subscriber is set, be it to a connection that is subscribed
\* or to one that an earlier call is still setting up, is rejected with the
\* already-subscribed error, creates no connection, and leaves
\* this.subscriber, the connections and their handlers as they are; and at
\* most one connection created by subscribe is open at any time.
C17_SingleSubscriber ==
  /\ []OneSubscriber
  /\ [][SubscribeAgain
          => /\ tasks'[Len(tasks')].res = Err("AlreadySubscribed")
             /\ <<client, subscriber, conns>>' = <<client, subscriber, conns>>
             /\ notifyVars' = notifyVars]_vars

\* The same for the calls made while this.client is set.
OneSubscriberConnected ==
  /\ \A t \in 1..Len(tasks) :
       (tasks[t].op = "subscribe" /\ tasks[t].subscribed /\ tasks[t].connected)
       => /\ tasks[t].pc = "done"
          /\ tasks[t].res = Err("AlreadySubscribed")
          /\ tasks[t].closes = 0
          /\ \A c \in 1..Len(conns) : conns[c].by # t
  /\ Cardinality({c \in SubscriberConns : Open(c)}) <= 1

C17_SingleSubscriberConnected ==
  /\ []OneSubscriberConnected
  /\ [][SubscribeAgain
          => /\ client # NULL
                => tasks'[Len(tasks')].res = Err("AlreadySubscribed")
             /\ <<client, subscriber, conns>>' = <<client, subscriber, conns>>
             /\ notifyVars' = notifyVars]_vars

\* A subscribe call was rejected while the call before it was waiting for
\* its connection, which is still the only one that subscribe created.
C17_Witness ==
  /\ Len(tasks) = 3
  /\ tasks[2].op = "subscribe" /\ tasks[2].pc = "wait"
  /\ tasks[3].op = "subscribe" /\ tasks[3].subscribed /\ tasks[3].connected
  /\ tasks[3].res = Err("AlreadySubscribed")
  /\ SubscriberConns = {subscriber}

\* C18 as the specification states it, in its first part: a subscribe call
\* that returns Ok returns a function, the handle that unregisters the
\* listener.
C18_UnregisterHandle ==
  \A t \in 1..Len(tasks) :
    (tasks[t].op = "subscribe" /\ tasks[t].pc = "done" /\ tasks[t].res.ok)
    => tasks[t].res.value.k = "function"

\* ------------------------------------------------------ properties of delivery

\* The n-th notification is a push on the wait list of a queue.
WaitPush(n) ==
  /\ notified[n].message \in {"lpush", "rpush"}
  /\ \E queueName \in QueueNames : notified[n].key = getWaitKey(queueName)

\* The listener's invocations for the n-th notification.
DeliveriesOf(n) == {i \in DOMAIN delivered : delivered[i].n = n}

\* The listener was invoked once for the n-th notification, with the
\* event waiting of the queue and the empty job id.
DeliveredOnce(n) ==
  /\ Cardinality(DeliveriesOf(n)) = 1
  /\ \A i \in DeliveriesOf(n) :
       delivered[i].event =
         [eventType |-> "waiting",
          queueName |-> SubSeq(notified[n].key, 3, Len(notified[n].key) - 2),
          jobId |-> <<>>]

\* The subscribe that opened connection c has returned Ok.
SubscribeReturnedOk(c) ==
  \E t \in 1..Len(tasks) :
    /\ conns[c].by = t /\ tasks[t].op = "subscribe"
    /\ tasks[t].pc = "done" /\ tasks[t].res.ok

\* C19 as the specification states it: once subscribe has returned Ok,
\* for every notification of a push on a wait list that its connection
\* has received since the pattern subscription was established, the
\* listener was invoked exactly once, with the event waiting of that queue
\* and the empty job id; none is lost for being received before the
\* handler is registered, and none is delivered twice.
C19_ExactlyOnce ==
  \A n \in DOMAIN notified :
    (WaitPush(n) /\ SubscribeReturnedOk(notified[n].conn)) => DeliveredOnce(n)

\* C19 for the notifications received after the handler was registered,
\* which is when subscribe returns Ok: each push on a wait list is
\* delivered exactly once, and a notification received before that is
\* never delivered.
C19_ExactlyOnceWhenLive ==
  \A n \in DOMAIN notified :
    IF notified[n].live THEN WaitPush(n) => DeliveredOnce(n)
    ELSE DeliveriesOf(n) = {}

\* The translations of the notifications from the n-th on that were
\* received with the handler registered and are not dropped, in order.
RECURSIVE Translated(_)
Translated(n) ==
  IF n > Len(notified) THEN <<>>
  ELSE LET event == parseKeyspaceEvent(
                      Channel(conns[notified[n].conn].db, notified[n].key),
                      notified[n].message)
       IN (IF notified[n].live /\ event # JNull THEN <<event>> ELSE <<>>)
          \o Translated(n + 1)

\* C20: the events with which the listener was invoked are, in the order
\* of the invocations, the translations of the notifications received,
\* in the order of their receipt, without those that are dropped (the
\* translation is null, or no handler was registered); and an invocation
\* once made stays where it is in that order.
C20_DeliveryOrder ==
  /\ [i \in DOMAIN delivered |-> delivered[i].event] = Translated(1)
  /\ \A i \in DOMAIN delivered :
       \A j \in DOMAIN delivered : i < j => delivered[i].n < delivered[j].n

\* Two notifications were received, a write of a job's hash and then a
\* push on a wait list, and the listener was invoked for both.
C20_Witness ==
  /\ Len(notified) = 2 /\ Len(delivered) = 2
  /\ delivered[1].event.eventType = "updated"
  /\ delivered[2].event.eventType = "waiting"

\* ----------------------------------------------- properties of the listener

\* The translation of the n-th notification is not null.
Translatable(n) ==
  parseKeyspaceEvent(Channel(conns[notified[n].conn].db, notified[n].key),
                     notified[n].message) # JNull

\* After the listener threw on the n-th notification, the handler is still
\* registered on the connection and the listener was invoked for every
\* later notification of that connection whose translation is not null.
StillDelivering(n) ==
  /\ conns[notified[n].conn].handler
  /\ \A m \in DOMAIN notified :
       (m > n /\ notified[m].conn = notified[n].conn /\ Translatable(m))
       => Cardinality(DeliveriesOf(m)) = 1

\* The step is the receipt of a notification on which the listener throws.
ListenerThrows ==
  /\ Len(notified') = Len(notified) + 1
  /\ notified'[Len(notified')].threw

\* C21: when the listener throws while handling an event, the step leaves
\* the adapter's connections, this.client, this.subscriber and the calls
\* in flight as they are (the exception does not reach the subscriber
\* connection), the handler stays registered, and every later translatable
\* notification of that connection is still delivered to the listener.
C21_ListenerIsolation ==
  /\ [](\A n \in DOMAIN notified : notified[n].threw => StillDelivering(n))
  /\ [][ListenerThrows => UNCHANGED <<client, subscriber, conns, tasks>>]_vars

\* The listener threw on the first notification and was invoked for the
\* second.
C21_Witness ==
  /\ Len(notified) = 2
  /\ notified[1].threw
  /\ notified[2].conn = notified[1].conn
  /\ Translatable(2)
  /\ DeliveriesOf(2) # {}

\* ------------------------------------------- properties of the translation

\* The key of the n-th notification is the meta key of queue name q.
OnMetaKey(n, q) == notified[n].key = getMetaKey(q)

\* C22 as the specification states it: a notification on the meta key of a
\* queue, whatever the database index, the queue's name and the operation,
\* never results in an invocation of the listener.
C22_MetaSilent ==
  \A n \in DOMAIN notified :
    (\E q \in {Emails, Nested} : OnMetaKey(n, q)) => DeliveriesOf(n) = {}

\* C22 for the queues whose name has no ":": a notification on their meta
\* key never results in an invocation of the listener.
C22_MetaSilentPlainName ==
  \A n \in DOMAIN notified : OnMetaKey(n, Emails) => DeliveriesOf(n) = {}

\* The key of the n-th notification is the key of the record of job id of
\* queue name q.
OnJobKey(n, q, id) == notified[n].key = getJobKey(q, id)

\* The event with which the listener was invoked for the n-th notification
\* (there is one invocation).
EventOf(n) == delivered[CHOOSE i \in DOMAIN delivered : delivered[i].n = n].event

\* C23 as the specification states it: for a notification on a key whose
\* tail is none of the reserved suffixes, the listener is invoked with the
\* kind updated when the operation is hset or hmset, removed when it is
\* del, and updated for every other operation.
C23_JobKeyKinds ==
  \A n \in DOMAIN notified :
    (\E id \in {J1, WeirdId} : OnJobKey(n, Emails, id)) =>
      /\ Cardinality(DeliveriesOf(n)) = 1
      /\ EventOf(n).eventType =
           IF notified[n].message = "del" THEN "removed" ELSE "updated"

\* C23 for the operations hset, hmset and del.
C23_JobKeyKindsOfHashOps ==
  \A n \in DOMAIN notified :
    (/\ \E id \in {J1, WeirdId} : OnJobKey(n, Emails, id)
     /\ notified[n].message \in {"hset", "hmset", "del"}) =>
      /\ Cardinality(DeliveriesOf(n)) = 1
      /\ EventOf(n).eventType =
           IF notified[n].message = "del" THEN "removed" ELSE "updated"

\* C24: for a notification on the key of a job record whose queue name has
\* no ":" and whose job id has one, the listener is invoked once with that
\* queue name and with the whole job id, every ":" of it included; the
\* kind is removed when the operation is del.
C24_JobIdWithColons ==
  \A n \in DOMAIN notified :
    OnJobKey(n, Emails, WeirdId) =>
      /\ Cardinality(DeliveriesOf(n)) = 1
      /\ EventOf(n).queueName = Emails
      /\ EventOf(n).jobId = WeirdId
      /\ notified[n].message = "del" => EventOf(n).eventType = "removed"

\* A del of the record of a job whose id has a ":" was notified and the
\* listener was invoked for it.
C24_Witness ==
  \E n \in DOMAIN notified :
    /\ OnJobKey(n, Emails, WeirdId)
    /\ notified[n].message = "del"
    /\ DeliveriesOf(n) # {}

\* The kind of the event for an operation on an index key of the queue
\* emails that the specification's table lists, "none" for the others.
ListedKind(key, message) ==
  LET pushed == message \in {"lpush", "rpush"}
  IN CASE key = getWaitKey(Emails) /\ pushed -> "waiting"
       [] key = getWaitKey(Emails) /\ message = "lrem" -> "dequeued"
       [] key = getActiveKey(Emails) /\ pushed -> "active"
       [] key = getCompletedKey(Emails) /\ message = "zadd" -> "completed"
       [] key = getFailedKey(Emails) /\ message = "zadd" -> "failed"
       [] key = getDelayedKey(Emails) /\ message = "zadd" -> "delayed"
       [] OTHER -> "none"

\* C25: for a notification on a status index (the tail is wait, active,
\* completed, failed or delayed) with an operation of the table, the
\* listener is invoked once with the empty job id and the kind of the
\* table: waiting for wait with lpush or rpush, dequeued for wait with
\* lrem, active for active with lpush or rpush, completed, failed and
\* delayed for a zadd on the index of that name.
C25_IndexKeyKinds ==
  \A n \in DOMAIN notified :
    ListedKind(notified[n].key, notified[n].message) # "none" =>
      /\ Cardinality(DeliveriesOf(n)) = 1
      /\ EventOf(n).jobId = <<>>
      /\ EventOf(n).queueName = Emails
      /\ EventOf(n).eventType = ListedKind(notified[n].key, notified[n].message)

\* An lrem on a wait list and a zadd on a completed set were notified and
\* the listener was invoked for both.
C25_Witness ==
  /\ Len(notified) = 2 /\ Len(delivered) = 2
  /\ ListedKind(notified[1].key, notified[1].message) = "dequeued"
  /\ ListedKind(notified[2].key, notified[2].message) = "completed"

\* ---------------------------------------------------- properties of connect

\* The step is the failure of connect call t: it was waiting for the first
\* of 'ready' and 'error' and returns Err.
ConnectFails(t) ==
  /\ t \in 1..Len(tasks)
  /\ tasks[t].op = "connect" /\ tasks[t].pc = "wait"
  /\ tasks'[t].pc = "done" /\ ~tasks'[t].res.ok

\* After the step connect call t has returned the connection's error, its
\* connection has been force-closed and this.client is null.
FailedClean(t) ==
  /\ tasks'[t].res = Err("ConnectionError")
  /\ conns'[tasks[t].conn].st = "closed"
  /\ conns'[tasks[t].conn].forced = conns[tasks[t].conn].forced + 1
  /\ client' = NULL
  /\ machine' = "disconnected"

\* C26 as the specification states it: when the connection of a connect
\* call reports an error before it reports ready, the call returns Err
\* with that error, the connection is force-closed and the adapter is left
\* disconnected (this.client is null, so that reads fail with NotConnected).
C26_ConnectFailure ==
  [][\A t \in 1..MaxTasks : ConnectFails(t) => FailedClean(t)]_vars

\* C26 for a connect call whose connection is still this.client when it
\* reports the error.
C26_ConnectFailureOfClient ==
  [][\A t \in 1..MaxTasks :
       (ConnectFails(t) /\ client = tasks[t].conn) => FailedClean(t)]_vars

\* C27 as the specification states it: every connect call with a
\* well-formed connection string returns, also when its connection reports
\* neither 'ready' nor 'error'.
C27_ConnectReturns ==
  \A t \in 1..MaxTasks :
    (t <= Len(tasks) /\ tasks[t].op = "connect" /\ tasks[t].pc = "wait")
    ~> (t <= Len(tasks) /\ tasks[t].pc = "done")

\* C27 for connections that report: a connect call that waits returns, or
\* its connection is closed by another call before it has reported.
C27_ConnectReturnsIfReported ==
  \A t \in 1..MaxTasks :
    (t <= Len(tasks) /\ tasks[t].op = "connect" /\ tasks[t].pc = "wait")
    ~> (/\ t <= Len(tasks)
        /\ \/ tasks[t].pc = "done"
           \/ \A c \in 1..Len(conns) : conns[c].by = t => ~Open(c))

\* ------------------------------------------- properties of failure handling

\* C28 as the specification states it: when the read of the record of an
\* id of the page fails with an I/O error of the connection, getJobs returns
\* Err; it does not return Ok with a list that leaves the job out.
C28_FetchErrorPropagates ==
  (rd.op = "getJobs" /\ rd.pc = "done" /\ rd.lost # {}) => ~rd.res.ok

\* The I/O errors of the range read of the index do propagate: getJobs
\* returns Err when LRANGE or ZRANGE is rejected.
C28_RangeErrorPropagates ==
  (rd.op = "getJobs" /\ rd.pc = "done" /\ rd.failed /\ rd.lost = {}
     /\ rd.tally.queues = <<>>)
  => ~rd.res.ok

\* The fields of record h that hold a string which is neither JSON nor a
\* number.
Undecodable(h, fields) == {f \in fields : h[f] = BadJson}

\* The field of a job that is read from field f of the record.
JobField(f) ==
  CASE f = "opts" -> "maxAttempts"
    [] f = "attemptsMade" -> "attempts"
    [] OTHER -> f

\* C29 as the specification states it: getJob on a record with a payload
\* field (data, opts, returnvalue, stacktrace) that is not valid JSON
\* returns Ok with a job that carries the raw string for that field; on a
\* record with a structural field (timestamp, processedOn, finishedOn,
\* delay, attemptsMade) that is not a valid integer it returns a decode
\* error.
C29_DecodePolicy ==
  LET h == RecordOf(store, Emails, J1)
  IN (GetJobDone /\ Undisturbed(rd)) =>
       /\ \A f \in Undecodable(h, PayloadFields) :
            rd.res.ok /\ rd.res.value[JobField(f)] = JString(h[f].s)
       /\ Undecodable(h, StructuralFields) # {} => ~rd.res.ok

\* What getJob does: Err with the SyntaxError for a payload field that is
\* not JSON, and Ok with NaN for a structural field that is not an integer.
C29_DecodePolicyOfCode ==
  LET h == RecordOf(store, Emails, J1)
  IN (GetJobDone /\ Undisturbed(rd)) =>
       /\ Undecodable(h, PayloadFields) # {} => rd.res = Err("SyntaxError")
       /\ \A f \in Undecodable(h, StructuralFields) :
            rd.res.ok /\ rd.res.value[JobField(f)] = JNaN

\* The jobs that the read call which has just returned Ok returned.
JobsReturned ==
  IF rd.pc # "done" \/ ~rd.res.ok THEN {}
  ELSE IF rd.op = "getJob" THEN {rd.res.value}
  ELSE IF rd.op = "getJobs" THEN {rd.res.value[i] : i \in DOMAIN rd.res.value}
  ELSE {}

\* C30 as the specification states it: a job that getJob or getJobs
\* returns with status waiting or active has no finishedOn, whatever the
\* fields of its record.
C30_UnfinishedWhileQueued ==
  \A job \in JobsReturned :
    job.status \in {"waiting", "active"} => job.finishedOn = JNull

\* A job returned with status completed or failed may have finishedOn; one
\* returned with any status has finishedOn exactly when its record has.
C30_FinishedOnOfRecord ==
  \A job \in JobsReturned :
    ~rd.mutated =>
      (job.finishedOn = JNull
         <=> ~Truthy(RecordOf(store, job.queueName, job.id).finishedOn))


\* ------------------------------------------- properties of the whole contract

\* C31 as the specification states it: no lifecycle call lets an exception
\* escape to its caller, whichever command fails and also when the forced
\* close itself fails; a call that has completed has a tagged outcome.
C31_ResultOverExceptions ==
  \A t \in 1..Len(tasks) :
    /\ tasks[t].pc # "threw"
    /\ tasks[t].pc = "done" => tasks[t].res.ok \in BOOLEAN

\* On connections whose forced close does not throw, every call that fails
\* a command returns Err: the calls that were rejected a command, or found
\* this.subscriber cleared under them, have returned a tagged failure.
C31_ResultUnlessCloseThrows ==
  \A t \in 1..Len(tasks) :
    /\ tasks[t].pc \in {"done", "wait", "psub", "on", "punsub", "subquit", "quit"}
    /\ tasks[t].pc = "done" => tasks[t].res.ok \in BOOLEAN


\* ------------------------------------------------ properties of the key layout

\* The arguments the keys of the store were computed from.
KeyOwners(key) == store[key].v

\* A sequence of atoms without ':'.
Plain(str) == \A i \in 1..Len(str) : str[i] # ":"

\* C32 as the specification states it: no key is computed from two
\* different (queue, suffix or id) pairs, and no key is both the key of a
\* job's record and the key of an index.
C32_KeyLayoutBijection ==
  \A key \in DOMAIN store :
    \A a, b \in KeyOwners(key) :
      /\ a.queueName = b.queueName /\ a.tail = b.tail
      /\ a.kind = b.kind

\* The same for queue names and job ids without ':' and job ids that are
\* not one of the six index names.
C32_KeyLayoutOfPlainNames ==
  \A key \in DOMAIN store :
    \A a, b \in KeyOwners(key) :
      (/\ Plain(a.queueName) /\ Plain(b.queueName)
       /\ Plain(a.tail) /\ Plain(b.tail)
       /\ a.kind = "job" => a.tail \notin Suffixes
       /\ b.kind = "job" => b.tail \notin Suffixes)
      => a = b


\* ------------------------------------------- properties of disconnect's failures

\* In this step a command that disconnect call t is waiting for (its pc is
\* one of pcs) is rejected.
Rejects(t, pcs) ==
  /\ t <= Len(tasks)
  /\ tasks[t].op = "disconnect" /\ tasks[t].pc \in pcs
  /\ tasks'[t].pc # tasks[t].pc
  /\ conns'[tasks[t].conn].rejected = conns[tasks[t].conn].rejected + 1

\* The error a command on connection c is rejected with.
RejectionOf(c) ==
  IF conns[c].st = "closed" THEN "ConnectionClosed" ELSE "Transport"

\* After this step connection c is closed, by a forced close made in this
\* step or before it.
ForceClosed(c) ==
  conns'[c].st = "closed" /\ conns'[c].forced >= 1

\* The subscriber's PUNSUBSCRIBE or QUIT is rejected: the subscriber
\* connection is force-closed and its handle cleared, and disconnect goes on
\* to the graceful close of the command connection (or returns Ok when there
\* is none).
SubscriberEscalated(t) ==
  /\ ForceClosed(tasks[t].conn)
  /\ subscriber' = NULL
  /\ IF client # NULL
     THEN /\ tasks'[t].pc = "quit" /\ tasks'[t].conn = client
          /\ conns'[client].quits = conns[client].quits + 1
          /\ conns'[client].forced = conns[client].forced
          /\ client' = client
     ELSE tasks'[t].pc = "done" /\ tasks'[t].res.ok

\* The command connection's QUIT is rejected: the connection is
\* force-closed, both handles are cleared, and disconnect returns Err with
\* the rejection.
ClientEscalated(t) ==
  /\ ForceClosed(tasks[t].conn)
  /\ client' = NULL /\ subscriber' = NULL
  /\ tasks'[t].pc = "done"
  /\ tasks'[t].res = Err(RejectionOf(tasks[t].conn))
  /\ machine' = "disconnected"

\* The command connection's QUIT is answered: disconnect returns Ok with
\* both handles cleared and no forced close of the command connection.
ClientClosed(t) ==
  /\ t <= Len(tasks)
  /\ tasks[t].op = "disconnect" /\ tasks[t].pc = "quit"
  /\ tasks'[t].pc = "done"
  /\ conns'[tasks[t].conn].rejected = conns[tasks[t].conn].rejected

\* A disconnect call made after a disconnect call that returned Err.
AfterFailedDisconnect(t) ==
  /\ t > 1 /\ t <= Len(tasks)
  /\ tasks[t].op = "disconnect"
  /\ tasks[t - 1].op = "disconnect"
  /\ tasks[t - 1].pc = "done" /\ ~tasks[t - 1].res.ok

\* C33 as the specification states it, for every disconnect call: a
\* rejected PUNSUBSCRIBE or QUIT of the subscriber force-closes the
\* subscriber connection and the call goes on to QUIT the command
\* connection; a rejected QUIT of the command connection force-closes it and
\* the call returns Err with that rejection, both handles cleared; an
\* answered QUIT returns Ok with both handles cleared; and the disconnect
\* call after one that returned Err returns Ok.
C33_DisconnectEscalation ==
  /\ [][\A t \in 1..MaxTasks :
          /\ Rejects(t, {"punsub", "subquit"}) => SubscriberEscalated(t)
          /\ Rejects(t, {"quit"}) => ClientEscalated(t)
          /\ ClientClosed(t)
             => /\ tasks'[t].res.ok
                /\ client' = NULL /\ subscriber' = NULL
                /\ conns'[tasks[t].conn].forced = conns[tasks[t].conn].forced]_vars
  /\ [](\A t \in 1..MaxTasks :
          AfterFailedDisconnect(t) => tasks[t].pc = "done" /\ tasks[t].res.ok)

\* The same for the disconnect calls made while no other lifecycle call is
\* in flight.
C33_DisconnectEscalationOneByOne ==
  /\ [][OneByOne =>
          \A t \in 1..MaxTasks :
            /\ Rejects(t, {"punsub", "subquit"}) => SubscriberEscalated(t)
            /\ Rejects(t, {"quit"}) => ClientEscalated(t)
            /\ ClientClosed(t)
               => /\ tasks'[t].res.ok
                  /\ client' = NULL /\ subscriber' = NULL
                  /\ conns'[tasks[t].conn].forced = conns[tasks[t].conn].forced]_vars
  /\ [](OneByOne =>
          \A t \in 1..MaxTasks :
            AfterFailedDisconnect(t) => tasks[t].pc = "done" /\ tasks[t].res.ok)

\* connect, subscribe and disconnect were called one by one; the
\* subscriber's cleanup was rejected and its connection force-closed, the
\* command connection was sent its QUIT, which was rejected too, and
\* disconnect returned Err with both handles cleared.
C33_Witness ==
  /\ Len(tasks) = 3 /\ OneByOne /\ AllReturned
  /\ tasks[1].op = "connect" /\ tasks[2].op = "subscribe"
  /\ tasks[3].op = "disconnect"
  /\ tasks[2].res.ok
  /\ tasks[3].res = Err("Transport")
  /\ conns[2].rejected = 1 /\ conns[2].forced = 1 /\ conns[2].st = "closed"
  /\ conns[1].rejected = 1 /\ conns[1].quits = 1 /\ conns[1].forced = 1
  /\ client = NULL /\ subscriber = NULL


\* -------------------------------------------- properties of subscribe's failures

\* In this step subscribe call t fails on its connection: the connection
\* reports an error while the call waits for 'ready', or rejects the
\* PSUBSCRIBE.
SubscribeFails(t) ==
  /\ t <= Len(tasks)
  /\ tasks[t].op = "subscribe"
  /\ \/ /\ tasks[t].pc = "wait" /\ tasks'[t].pc # "wait"
        /\ conns[tasks[t].conn].onError = t
        /\ conns'[tasks[t].conn].onError = 0
     \/ /\ tasks[t].pc = "psub" /\ tasks'[t].pc # "psub"
        /\ conns'[tasks[t].conn].rejected = conns[tasks[t].conn].rejected + 1

\* The error that the failure of this step reports.
SubscribeFailure(t) ==
  IF tasks[t].pc = "wait" THEN "ConnectionError"
  ELSE RejectionOf(tasks[t].conn)

\* Subscribe call t returns Err with the failure and this.subscriber is
\* cleared, and this.client and the command connection are as they were.
SubscribeReturnsErr(t) ==
  /\ tasks'[t].pc = "done"
  /\ tasks'[t].res = Err(SubscribeFailure(t))
  /\ subscriber' = NULL
  /\ client' = client
  /\ client # NULL => conns'[client] = conns[client]

\* The same, and the call's connection is closed by force.
SubscribeForceCleaned(t) ==
  SubscribeReturnsErr(t) /\ ForceClosed(tasks[t].conn)

\* The same, and the call's connection is closed: by force, unless a
\* disconnect call had closed it already.
SubscribeCleaned(t) ==
  /\ SubscribeReturnsErr(t)
  /\ conns'[tasks[t].conn].st = "closed"
  /\ conns[tasks[t].conn].st # "closed" => ForceClosed(tasks[t].conn)

\* A subscribe call is made in this step while this.client is set, and
\* the subscribe call before it has failed on its connection.
AfterFailedSubscribe ==
  /\ Len(tasks') = Len(tasks) + 1
  /\ tasks'[Len(tasks')].op = "subscribe"
  /\ client # NULL
  /\ \E t \in 1..Len(tasks) :
       /\ tasks[t].op = "subscribe" /\ tasks[t].pc = "done"
       /\ ~tasks[t].res.ok
       /\ tasks[t].res.error \in {"ConnectionError"} \cup Rejections
       /\ \A u \in (t + 1)..Len(tasks) : tasks[u].op # "subscribe"

\* The subscribe call after a failed one is not rejected with the
\* already-subscribed error: it creates a connection of its own and waits
\* for it.
AttemptedAfresh ==
  AfterFailedSubscribe
  => /\ tasks'[Len(tasks')].pc = "wait"
     /\ Len(conns') = Len(conns) + 1
     /\ subscriber' = Len(conns')
     /\ conns'[subscriber'].by = Len(tasks')

RECURSIVE ScansOf(_)
ScansOf(cmds) ==
  IF cmds = <<>> THEN <<>>
  ELSE IF Head(cmds)[1] = "scan" THEN <<Head(cmds)>> \o ScansOf(Tail(cmds))
  ELSE ScansOf(Tail(cmds))

\* The queue names of the meta keys of the store that name a queue.
QueuesOf(s) == {QueueNameOf(k) : k \in {key \in DOMAIN s : MetaKeyMatches(key)}}

\* The names of a sequence of Queue records.
NamesOf(queues) == {queues[i].name : i \in DOMAIN queues}

\* A SCAN of listQueues is answered in this step.
ScanStep == rd.op = "listQueues" /\ rd.pc = "scan" /\ rd' # rd

\* What listQueues does with the cursor of a reply: a rejected SCAN ends the
\* call with Err; a cursor other than 0 is sent with the next SCAN; the
\* cursor 0 ends the scan, and no further SCAN is sent.
CursorFollowed ==
  \/ rd'.pc = "done" /\ ~rd'.res.ok
  \/ /\ rd'.work.cursor # 0
     /\ rd'.pc = "scan"
     /\ rd'.cmds = Append(rd.cmds, <<"scan", rd'.work.cursor>>)
  \/ /\ rd'.work.cursor = 0
     /\ rd'.pc # "scan"
     /\ ScansOf(rd'.cmds) = ScansOf(rd.cmds)

\* C35: listQueues sends its first SCAN with cursor 0, sends each returned
\* cursor with the next SCAN and stops scanning exactly when the cursor
\* returned is 0; a call that returns Ok returns a queue for every meta
\* key of the store that names a queue, on whichever page it came; on an
\* empty store a call whose commands are answered returns Ok with no queue;
\* and with a broker that answers, every call returns.
C35_ScanCompleteness ==
  /\ [](rd.op = "listQueues" /\ rd.cmds # <<>> => rd.cmds[1] = <<"scan", 0>>)
  /\ [][ScanStep => CursorFollowed]_vars
  /\ [](ListQueuesDone /\ rd.res.ok => NamesOf(rd.res.value) = QueuesOf(store))
  /\ [](ListQueuesDone /\ rd.connected /\ ~rd.failed /\ store = EmptyStore
        => rd.res = Ok(<<>>))
  /\ (rd.op = "listQueues" /\ rd.pc # "done") ~> ListQueuesDone

\* listQueues has returned the three queues of a store whose meta keys came
\* on three pages, none of them twice.
C35_Witness ==
  /\ ListQueuesDone /\ rd.res.ok
  /\ Len(ScansOf(rd.cmds)) = 3
  /\ Len(rd.work.metaKeys) = 4
  /\ Len(rd.res.value) = 3
  /\ NamesOf(rd.res.value) = {Emails, Mail, Nested}


\* ------------------------------------------------ properties of the lifecycle

\* The three states of the adapter by its handles.
LifecycleState ==
  IF client = NULL /\ subscriber = NULL THEN "disconnected"
  ELSE IF client # NULL /\ subscriber = NULL THEN "connected"
  ELSE IF client # NULL /\ subscriber # NULL THEN "connected+subscribed"
  ELSE "subscribed only"

\* C36 as the specification states it: the adapter is always disconnected
\* (no handle), connected (command handle only) or connected+subscribed (both
\* handles); this.subscriber is never set while this.client is null.
C36_LifecycleStates ==
  LifecycleState \in {"disconnected", "connected", "connected+subscribed"}

\* The same while the calls are made one by one and no connection has
\* reported an error or failed a command.
C36_LifecycleStatesWhileHealthy ==
  (OneByOne /\ Healthy)
  => LifecycleState \in {"disconnected", "connected", "connected+subscribed"}


\* ------------------------------------- getJob beside a broker that moves the job

\* Moves of a job from one index to another in one behaviour.
MaxMoves == 2

\* The score a move gives the job in a sorted set.
MoveScore == 1000

\* The position of a status in the order of getJob's probes.
PositionOf(status) == CHOOSE i \in DOMAIN ProbeOrder : ProbeOrder[i] = status

\* The producing application moves a job from the index of one status to
\* that of another, as BullMQ's scripts do in one atomic step (a worker
\* takes a job, finishes it, fails it; a delayed job is promoted; a failed
\* job is retried). A getJob call in flight is marked when the job is moved
\* into an index whose probe was answered already.
BrokerMove(queueName, jobId, from, to) ==
  LET src == KeyValue(store, IndexKey(queueName, from))
      taken == Put(store, IndexKey(queueName, from),
                   IF src.t = "list" THEN ListVal(SeqWithout(src.v, jobId))
                   ELSE ZSetVal(PairsWithout(src.v, jobId)))
      dst == KeyValue(taken, IndexKey(queueName, to))
      put == Put(taken, IndexKey(queueName, to),
                 IF to \in ListStatuses
                 THEN ListVal(<<jobId>> \o (IF dst.t = "list" THEN dst.v ELSE <<>>))
                 ELSE ZSetVal(InsertSorted(IF dst.t = "zset" THEN dst.v ELSE <<>>,
                                           <<jobId, MoveScore>>)))
  IN /\ brokerOps < MaxMoves
     /\ from # to
     /\ Holds(store, queueName, from, jobId)
     /\ brokerOps' = brokerOps + 1
     /\ store' = put
     /\ rd' = IF rd.op = "idle" THEN rd
              ELSE [rd EXCEPT !.mutated = TRUE,
                              !.back = @ \/ (/\ rd.op = "getJob" /\ rd.pc = "probe"
                                             /\ rd.args.jobId = jobId
                                             /\ PositionOf(to) < rd.idx)]
     /\ UNCHANGED <<lifeVars, notifyVars>>

\* getJob of the one job of a store, which begins in any of the five
\* indexes and is moved between them.
InitMove ==
  /\ \E status \in JobStatuses : store = SeedDecode(HashFinished, status)
  /\ Fresh

NextMove ==
  \/ FirstConnect
  \/ Connections
  \/ GetJobCall(Emails, J1)
  \/ GetJobProbe
  \/ GetJobFetch
  \/ ReadReturn
  \/ \E from \in JobStatuses, to \in JobStatuses : BrokerMove(Emails, J1, from, to)

SpecMove == InitMove /\ [][NextMove]_vars

\* ---------------------------------- properties of getJob under concurrent moves

\* In this step a probe of getJob reports the id as present.
ProbeHits == rd.op = "getJob" /\ rd.pc = "probe" /\ rd'.pc = "fetch"

\* The status a getJob call returns is the status of the index whose probe
\* reported the id, and the job was in that index when the probe was
\* answered.
StatusWasHeld ==
  /\ [][ProbeHits => Holds(store, rd.args.queueName, ProbeOrder[rd.idx],
                           rd.args.jobId)]_vars
  /\ [](GetJobDone /\ rd.res.ok => rd.res.value.status = ProbeOrder[rd.idx])

\* C37 as the specification states it: while the job's record stays
\* non-empty and the id is always in an index, a getJob call on a healthy
\* connection does not return NotFound, however the job is moved, and the
\* status it returns is one the job held during the call.
C37_FoundWhileMoved ==
  /\ []((GetJobDone /\ rd.connected /\ ~rd.failed) => rd.res # Err("NotFound"))
  /\ StatusWasHeld

\* C37 for the calls during which the job was not moved into an index
\* that the call had probed already.
C37_FoundUnlessMovedBack ==
  /\ []((GetJobDone /\ rd.connected /\ ~rd.failed /\ ~rd.back)
        => rd.res # Err("NotFound"))
  /\ StatusWasHeld

\* getJob has returned the job as completed: it was active when the call
\* began and was moved to the completed set after the probe of the wait
\* list.
C37_Witness ==
  /\ GetJobDone /\ rd.res.ok
  /\ rd.mutated /\ ~rd.back /\ brokerOps = 1
  /\ rd.idx = 3 /\ rd.res.value.status = "completed"
  /\ Holding(store, Emails, J1) = {3}


\* ------------------------------------ properties of subscribe beside disconnect

\* Subscribe call t and disconnect call d were in flight at the same time:
\* one of them was made while the other had not returned.
Racing(t, d) ==
  /\ t <= Len(tasks) /\ d <= Len(tasks)
  /\ tasks[t].op = "subscribe" /\ tasks[d].op = "disconnect"
  /\ \E c \in 1..Len(conns) : conns[c].by = t
  /\ \/ t < d /\ "subscribe" \in tasks[d].beside
     \/ d < t /\ "disconnect" \in tasks[t].beside

\* The same for a disconnect call made while the subscribe call was in
\* flight.
RacingSubscribeFirst(t, d) == Racing(t, d) /\ t < d

\* No subscribe call was made after calls t and d.
NoSubscribeAfter(t, d) ==
  \A u \in 1..Len(tasks) : (u > t /\ u > d) => tasks[u].op # "subscribe"

\* Both calls have returned.
RaceOver(t, d) ==
  tasks[t].pc = "done" /\ tasks[d].pc = "done" /\ NoSubscribeAfter(t, d)

\* The subscriber is released.
SubscriberReleased ==
  /\ subscriber = NULL
  /\ \A c \in SubscriberConns : ~Open(c)

\* C38 as the specification states it: when a disconnect call and a
\* subscribe call are in flight at the same time, the subscribe call
\* returns; and once both have returned, this.subscriber is null and no
\* connection that subscribe created is open.
C38_SubscribeRacingDisconnect ==
  /\ \A t, d \in 1..MaxTasks :
       Racing(t, d) ~> (t <= Len(tasks) /\ tasks[t].pc = "done")
  /\ [](\A t, d \in 1..MaxTasks :
          (Racing(t, d) /\ RaceOver(t, d)) => SubscriberReleased)

\* The same for the disconnect calls made while the subscribe call was in
\* flight.
C38_DisconnectDuringSubscribe ==
  /\ \A t, d \in 1..MaxTasks :
       RacingSubscribeFirst(t, d) ~> (t <= Len(tasks) /\ tasks[t].pc = "done")
  /\ [](\A t, d \in 1..MaxTasks :
          (RacingSubscribeFirst(t, d) /\ RaceOver(t, d)) => SubscriberReleased)

\* The safety half of C38 alone: once both calls have returned, the
\* subscriber is released.
C38_ReleasedAfterRace ==
  \A t, d \in 1..MaxTasks :
    (Racing(t, d) /\ RaceOver(t, d)) => SubscriberReleased

\* disconnect was called while subscribe was waiting for the PSUBSCRIBE; it
\* closed the subscriber connection, the PSUBSCRIBE was rejected on the
\* closed connection and subscribe returned Err; both calls have returned.
C38_Witness ==
  /\ Len(tasks) = 3
  /\ RacingSubscribeFirst(2, 3) /\ RaceOver(2, 3)
  /\ tasks[2].res = Err("ConnectionClosed")
  /\ tasks[3].res.ok
  /\ subscriber = NULL /\ client = NULL
  /\ conns[2].by = 2 /\ conns[2].st = "closed" /\ conns[2].quits = 1


\* ------------------------------------------- properties of discovery: duplicates

\* No element occurs twice in the sequence.
NoRepeats(seq) == \A i, j \in DOMAIN seq : seq[i] = seq[j] => i = j

\* The names of the Queue records, in the order of the records.
NameList(queues) == [i \in DOMAIN queues |-> queues[i].name]

\* C39 as the specification states it: the collection that listQueues
\* returns holds at most one Queue record per queue name, also when the scan
\* returned a meta key more than once.
C39_NoDuplicates ==
  (ListQueuesDone /\ rd.res.ok) => NoRepeats(NameList(rd.res.value))

\* What listQueues gives: one Queue record per key that the scan returned
\* and that names a queue, in the order of the scan; so the records are
\* without duplicates when the scan returned no key twice.
C39_OneRecordPerScannedKey ==
  (ListQueuesDone /\ rd.res.ok) =>
    /\ NameList(rd.res.value) =
         [i \in 1..Len(SelectSeq(rd.work.metaKeys, MetaKeyMatches)) |->
            QueueNameOf(SelectSeq(rd.work.metaKeys, MetaKeyMatches)[i])]
    /\ NoRepeats(rd.work.metaKeys) => NoRepeats(NameList(rd.res.value))

\* The scan returned the meta key of a queue twice and listQueues returned
\* two records of that queue.
C39_Repeated ==
  /\ ListQueuesDone /\ rd.res.ok
  /\ ~NoRepeats(rd.work.metaKeys)
  /\ \E i, j \in DOMAIN rd.res.value :
       i # j /\ rd.res.value[i].name = rd.res.value[j].name


\* --------------------------- properties of the queue names: discovery and events

\* listQueues returns queue name q for q's meta key: the pattern of line 238
\* matches the key and its group is q.
Discoverable(q) ==
  MetaKeyMatches(getMetaKey(q)) /\ QueueNameOf(getMetaKey(q)) = q

\* The key of the n-th notification is the meta key or an index key of
\* queue name q.
OnReservedKey(n, q) ==
  \E suffix \in Suffixes :
    notified[n].key = <<"bull", ":">> \o q \o <<":">> \o suffix

\* The key of the n-th notification is one of the keys of queue name q.
OnOwnKey(n, q) ==
  \/ OnReservedKey(n, q)
  \/ \E id \in {J1, WeirdId} : OnJobKey(n, q, id)

\* The listener was invoked for the n-th notification on a key of queue
\* name q with that queue name, and with no job id when the key is q's meta
\* key or one of its index keys.
TranslatedFor(n, q) ==
  DeliveriesOf(n) # {} =>
    /\ EventOf(n).queueName = q
    /\ OnReservedKey(n, q) => EventOf(n).jobId = <<>>

\* C40 as the specification states it: for every queue name that
\* listQueues can return, names with ":" included, a notification on one of
\* the queue's keys is translated with that queue name, and a notification
\* on its meta key or on one of its index keys is not translated into the
\* event of a job id.
C40_QueueNamesAgree ==
  \A n \in DOMAIN notified :
    \A q \in {Emails, Nested} :
      (Discoverable(q) /\ OnOwnKey(n, q)) => TranslatedFor(n, q)

\* C40 for the queue names without ":".
C40_QueueNamesAgreePlainName ==
  \A n \in DOMAIN notified :
    (Discoverable(Emails) /\ OnOwnKey(n, Emails)) => TranslatedFor(n, Emails)

\* A notification on the wait index of the queue that listQueues names
\* mail:eu was delivered as the event of job eu:wait of queue mail.
C40_Misattributed ==
  \E n \in DOMAIN notified :
    /\ Discoverable(Nested)
    /\ notified[n].key = getWaitKey(Nested)
    /\ DeliveriesOf(n) # {}
    /\ EventOf(n).queueName = Mail
    /\ EventOf(n).jobId = <<"eu", ":", "wait">>

====
